---------------------------- MODULE Spec2Model ----------------------------
(***************************************************************************)
(* A model of the two scene-URL updaters of ratchetapps/urlstashgui:       *)
(*                                                                         *)
(*   US  src/urlstashgui.py             (browserHistory.db, pause_event)   *)
(*   FH  src/FirefoxHistory_stashGUI.py (places.sqlite, loading_paused)    *)
(*                                                                         *)
(* Both are Tk applications: handlers run on the interactive (main)        *)
(* thread, scans and update passes run on worker threads that hand their   *)
(* results back with self.after(0, ...).  In FH the class body defines     *)
(* several methods more than once; Python keeps the last definition, and   *)
(* that is the one modelled (forward_block of line 1065, load_scenes of    *)
(* line 706, _load_scenes_thread of line 1069, ...).                       *)
(*                                                                         *)
(* Text is modelled by TLA+ strings; a character is a string of length 1.  *)
(***************************************************************************)
EXTENDS Integers, Sequences, FiniteSets, TLC

(***************************************************************************)
(* Program constants and model bounds                                      *)
(***************************************************************************)
\* Number of scenes to load per block.
TARGET_SCENE_COUNT == 10

\* Scene ids of the modelled Catalog Service are 1..MaxSceneId.
MaxSceneId == 11

\* The cursor of a forward scan counts up to MaxSid; from there it goes on
\* over MaxSid - 1 and MaxSid in turn: the ids above MaxSceneId do not
\* exist, and a scan that goes on there is a scan that goes on requesting
\* ids that do not exist, one request a step.
MaxSid == MaxSceneId + 2

\* Worker threads the program starts in one run.
MaxThreads == 2
Threads == 1..MaxThreads

(***************************************************************************)
(* Strings                                                                 *)
(***************************************************************************)
UpperChars == "ABCDEFGHIJKLMNOPQRSTUVWXYZ"
LowerChars == "abcdefghijklmnopqrstuvwxyz"
DigitChars == "0123456789"

Char(s, i) == SubSeq(s, i, i)

\* The first position of character c in s, 0 when it is not in s.
IndexOf(c, s) ==
    IF \E i \in 1..Len(s) : Char(s, i) = c
    THEN CHOOSE i \in 1..Len(s) :
            /\ Char(s, i) = c
            /\ \A j \in 1..(i-1) : Char(s, j) # c
    ELSE 0

\* The last position in s of a character of the string seps, 0 when none.
LastIndexOfAny(seps, s) ==
    IF \E i \in 1..Len(s) : IndexOf(Char(s, i), seps) > 0
    THEN CHOOSE i \in 1..Len(s) :
            /\ IndexOf(Char(s, i), seps) > 0
            /\ \A j \in (i+1)..Len(s) : IndexOf(Char(s, j), seps) = 0
    ELSE 0

IsDigit(c) == IndexOf(c, DigitChars) > 0

\* str.isalnum() of one character (over the ASCII alphabet of the model).
IsAlnum(c) ==
    \/ IndexOf(c, LowerChars) > 0
    \/ IndexOf(c, UpperChars) > 0
    \/ IsDigit(c)

LowerChar(c) ==
    LET i == IndexOf(c, UpperChars)
    IN  IF i > 0 THEN Char(LowerChars, i) ELSE c

\* A lower() that leaves the text as it is.
Lower_AsIs(s) == s

\* str.lower()
RECURSIVE Lower(_)
Lower(s) ==
    IF Len(s) = 0 THEN ""
    ELSE LowerChar(Char(s, 1)) \o Lower(SubSeq(s, 2, Len(s)))

\* A filter that lets the dot through.
RECURSIVE KeepAlnum_AndDot(_)
KeepAlnum_AndDot(s) ==
    IF Len(s) = 0 THEN ""
    ELSE (IF IsAlnum(Char(s, 1)) \/ Char(s, 1) = "." THEN Char(s, 1) ELSE "")
            \o KeepAlnum_AndDot(SubSeq(s, 2, Len(s)))

\* "".join(ch for ch in s if ch.isalnum())
RECURSIVE KeepAlnum(_)
KeepAlnum(s) ==
    IF Len(s) = 0 THEN ""
    ELSE (IF IsAlnum(Char(s, 1)) THEN Char(s, 1) ELSE "")
            \o KeepAlnum(SubSeq(s, 2, Len(s)))

\* str.startswith / str.endswith / the "in" operator on strings
StartsWith(s, p) == Len(p) <= Len(s) /\ SubSeq(s, 1, Len(p)) = p
EndsWith(s, p) ==
    Len(p) <= Len(s) /\ SubSeq(s, Len(s) - Len(p) + 1, Len(s)) = p
Contains(s, sub) ==
    \/ Len(sub) = 0
    \/ \E i \in 1..(Len(s) - Len(sub) + 1) : SubSeq(s, i, i + Len(sub) - 1) = sub

(***************************************************************************)
(* Paths and the Normalizer                                                *)
(***************************************************************************)
\* os.path.basename: the text after the last path separator.
PathSeps == "/\\"
Basename(path) ==
    SubSeq(path, LastIndexOfAny(PathSeps, path) + 1, Len(path))

\* os.path.splitext(name)[0] of a name without separators: cut at the last
\* dot unless only dots precede it.
SplitextRoot(name) ==
    LET d == LastIndexOfAny(".", name)
    IN  IF d > 1 /\ \E j \in 1..(d-1) : Char(name, j) # "."
        THEN SubSeq(name, 1, d - 1)
        ELSE name

\* US sanitize_for_windows: alphanumerics only, lowercased.
sanitize_for_windows_US(filename) == Lower(KeepAlnum(filename))

\* FH sanitize_for_windows: drop a ".mp4" extension first.
sanitize_for_windows_FH(filename) ==
    LET f == IF EndsWith(Lower(filename), ".mp4")
             THEN SubSeq(filename, 1, Len(filename) - 4)
             ELSE filename
    IN  Lower(KeepAlnum(f))

\* US remove_dash_number_suffix: re.sub(r'-\d\d$', '', text).
remove_dash_number_suffix(text) ==
    LET n == Len(text)
    IN  IF /\ n >= 3
           /\ Char(text, n - 2) = "-"
           /\ IsDigit(Char(text, n - 1))
           /\ IsDigit(Char(text, n))
        THEN SubSeq(text, 1, n - 3)
        ELSE text

\* FH re.sub(r'-\d+$', '', base_filename): a dash followed by digits only,
\* up to the end of the text.
RemoveDashDigitsSuffix(text) ==
    LET p == LastIndexOfAny("-", text)
    IN  IF /\ p > 0
           /\ p < Len(text)
           /\ \A j \in (p+1)..Len(text) : IsDigit(Char(text, j))
        THEN SubSeq(text, 1, p - 1)
        ELSE text

\* US clean_filename.
clean_filename(filename) ==
    LET f == IF EndsWith(Lower(filename), ".mp4")
             THEN SubSeq(filename, 1, Len(filename) - 4)
             ELSE filename
    IN  sanitize_for_windows_US(remove_dash_number_suffix(f))

(***************************************************************************)
(* History Query Layer and Matcher                                         *)
(*                                                                         *)
(* A History Store is a record [ok, rows]: ok = FALSE is a store that is   *)
(* missing or whose query fails; rows is the table in the store's order,   *)
(* each row [title, url].                                                  *)
(***************************************************************************)
FILTER_DOMAINS == <<"localhost", "google.com", "tgtube.com", "dinotube.com">>

\* A post-filter that reads the url as it is written.
PassesFilter_CaseSensitive(row) ==
    /\ row.url # ""
    /\ \A k \in 1..Len(FILTER_DOMAINS) : ~Contains(row.url, FILTER_DOMAINS[k])
    /\ row.title # ""

\* The post-filter of both programs: url and title non-empty, no denylisted
\* domain in the lowercased url.
PassesFilter(row) ==
    /\ row.url # ""
    /\ \A k \in 1..Len(FILTER_DOMAINS) :
          ~Contains(Lower(row.url), FILTER_DOMAINS[k])
    /\ row.title # ""

\* SQLite's  column LIKE '%substring%'  (case-insensitive over ASCII).
Like(text, substring) == Contains(Lower(text), Lower(substring))

\* A lookup that answers a failure of the store with a row it kept.
OnStoreFailure_StaleRow(db) == <<[title |-> "beach walk", url |-> "http://x/beach"]>>

\* What get_firefox_urls returns when the store is missing, cannot be opened
\* or the query raises: return [].
OnStoreFailure(db) == <<>>

\* US: SELECT historytitle, url FROM browser_hist WHERE historytitle LIKE
\* '%clean_base%', in the store's order.
Results_US(clean_base, db) ==
    LET InResult(row) == Like(row.title, clean_base)
    IN  SelectSeq(db.rows, InResult)

\* filtered: the rows of results that pass the post-filter.
Filtered(results) == SelectSeq(results, PassesFilter)

\* A choice of the last of the rows whose historytitle starts with the
\* cleaned filename.
FirstPrefixMatch_Last(clean_base, filtered) ==
    LET Hit(row) == StartsWith(row.title, clean_base)
        hits == SelectSeq(filtered, Hit)
    IN  IF hits = <<>> THEN <<>> ELSE <<hits[Len(hits)]>>

\* US: the first filtered row whose historytitle starts with the cleaned
\* filename, as a list of zero or one candidates.
FirstPrefixMatch(clean_base, filtered) ==
    LET Hit(row) == StartsWith(row.title, clean_base)
        hits == SelectSeq(filtered, Hit)
    IN  IF hits = <<>> THEN <<>> ELSE <<Head(hits)>>

\* US get_firefox_urls.
get_firefox_urls_US(base_filename, db) ==
    IF ~db.ok THEN OnStoreFailure(db)
    ELSE LET clean_base == clean_filename(base_filename)
         IN  FirstPrefixMatch(clean_base, Filtered(Results_US(clean_base, db)))

\* difflib.SequenceMatcher(None, a, b): the number of matched characters,
\* the sum of get_matching_blocks(): the longest block of a[alo..ahi-1]
\* and b[blo..bhi-1] (earliest in a, then earliest in b), then the same on
\* both sides of it.  (autojunk needs 200 characters and plays no part.)
RECURSIVE MatchCount(_, _, _, _, _, _)
MatchCount(a, b, alo, ahi, blo, bhi) ==
    LET Blocks == { x \in (alo..(ahi-1)) \X (blo..(bhi-1)) \X (1..(ahi-alo)) :
                      /\ x[1] + x[3] <= ahi
                      /\ x[2] + x[3] <= bhi
                      /\ SubSeq(a, x[1], x[1] + x[3] - 1)
                           = SubSeq(b, x[2], x[2] + x[3] - 1) }
        Before(x, y) ==
            \/ x[3] > y[3]
            \/ x[3] = y[3] /\ x[1] < y[1]
            \/ x[3] = y[3] /\ x[1] = y[1] /\ x[2] <= y[2]
    IN  IF Blocks = {} THEN 0
        ELSE LET m == CHOOSE x \in Blocks : \A y \in Blocks : Before(x, y)
             IN  m[3]
                 + MatchCount(a, b, alo, m[1], blo, m[2])
                 + MatchCount(a, b, m[1] + m[3], ahi, m[2] + m[3], bhi)

\* A score is the fraction num/den: SequenceMatcher.ratio() is 2*M/T and
\* 1.0 when both strings are empty.
ScoreOne == [num |-> 1, den |-> 1]
ScoreZero == [num |-> 0, den |-> 1]
SeqRatio(a, b) ==
    LET T == Len(a) + Len(b)
    IN  IF T = 0 THEN ScoreOne
        ELSE [num |-> 2 * MatchCount(a, b, 1, Len(a) + 1, 1, Len(b) + 1),
              den |-> T]
\* A comparison that lets a later row of the same ratio take over.
ScoreGt_OrEqual(x, y) == x.num * y.den >= y.num * x.den
ScoreGt(x, y) == x.num * y.den > y.num * x.den
\* A comparison that turns away a ratio equal to the threshold.
ScoreGe_Strict(x, y) == x.num * y.den > y.num * x.den
ScoreGe(x, y) == x.num * y.den >= y.num * x.den

\* threshold = 0.9
ThresholdNum == 9
ThresholdDen == 10
Threshold == [num |-> ThresholdNum, den |-> ThresholdDen]

\* A scoring without the branch for the titles that start with the key.
CandidateRatio_NoFastPath(clean_base, title) ==
    SeqRatio(clean_base, sanitize_for_windows_FH(title))

\* FH get_firefox_urls, the scoring of one candidate title.
CandidateRatio(clean_base, title) ==
    LET clean_candidate == sanitize_for_windows_FH(title)
    IN  IF StartsWith(clean_candidate, clean_base) THEN ScoreOne
        ELSE SeqRatio(clean_base, clean_candidate)

\* The scores of the titles of the modelled History Store against the keys
\* of the modelled file names are evaluated once and kept in RatioTable.
RatioKeys == {"beach", "zzz", "abcdefghimp", "nofilefound"}
RatioTitles == {"Other", "beach", "beach walk", "abcdefghi.mp4", "abcdefgh"}
RatioTable ==
    { [key |-> k, title |-> x, ratio |-> CandidateRatio(k, x)]
        : k \in RatioKeys, x \in RatioTitles }
Ratio(clean_base, title) ==
    IF clean_base \in RatioKeys /\ title \in RatioTitles
    THEN (CHOOSE r \in RatioTable : r.key = clean_base /\ r.title = title).ratio
    ELSE CandidateRatio(clean_base, title)

\* FH get_firefox_urls, the loop over the filtered rows: the best so far is
\* [cand, ratio]; cand = <<>> stands for None.
RECURSIVE BestOf(_, _, _)
BestOf(rows, clean_base, best) ==
    IF rows = <<>> THEN best
    ELSE LET ratio == Ratio(clean_base, Head(rows).title)
         IN  BestOf(Tail(rows), clean_base,
                    IF ScoreGt(ratio, best.ratio)
                    THEN [cand |-> <<Head(rows)>>, ratio |-> ratio]
                    ELSE best)

\* FH: clean_base, the key of a file name.
CleanBase_FH(base_filename) ==
    sanitize_for_windows_FH(RemoveDashDigitsSuffix(base_filename))

\* FH: SELECT title, url FROM moz_places WHERE url LIKE '%clean_base[:3]%',
\* in the store's order.
Results_FH(clean_base, db) ==
    LET substring == SubSeq(clean_base, 1,
                            IF Len(clean_base) < 3 THEN Len(clean_base) ELSE 3)
        InResult(row) == Like(row.url, substring)
    IN  SelectSeq(db.rows, InResult)

\* FH: the best filtered row if its ratio reaches the threshold.
BestCandidate(clean_base, filtered) ==
    LET best == BestOf(filtered, clean_base, [cand |-> <<>>, ratio |-> ScoreZero])
    IN  IF best.cand # <<>> /\ ScoreGe(best.ratio, Threshold) THEN best.cand
        ELSE <<>>

\* FH get_firefox_urls.
get_firefox_urls_FH(base_filename, db) ==
    IF ~db.ok THEN OnStoreFailure(db)
    ELSE LET clean_base == CleanBase_FH(base_filename)
         IN  BestCandidate(clean_base, Filtered(Results_FH(clean_base, db)))

\* int(text) of the start id entry: an optional sign and decimal digits;
\* anything else raises ValueError (ok = FALSE).
RECURSIVE DigitsValue(_)
DigitsValue(s) ==
    IF Len(s) = 0 THEN 0
    ELSE 10 * DigitsValue(SubSeq(s, 1, Len(s) - 1))
            + (IndexOf(Char(s, Len(s)), DigitChars) - 1)
ParseInt(text) ==
    LET signed == Len(text) > 0 /\ Char(text, 1) \in {"-", "+"}
        digits == IF signed THEN SubSeq(text, 2, Len(text)) ELSE text
        ok == Len(digits) > 0 /\ \A j \in 1..Len(digits) : IsDigit(Char(digits, j))
    IN  [ok |-> ok,
         val |-> IF ~ok THEN 0
                 ELSE IF signed /\ Char(text, 1) = "-" THEN 0 - DigitsValue(digits)
                 ELSE DigitsValue(digits)]

(***************************************************************************)
(* The Catalog Service and the History Store of the modelled runs          *)
(*                                                                         *)
(* A scene is [present, id, organized, files, urls, tag_ids]; present =    *)
(* FALSE is an id for which find_scene returns None.  An entry of urls is  *)
(* [kind, url]: kind "str" a bare string, kind "dict" a {url: ...} object. *)
(***************************************************************************)
Scene(id, organized, files, urls) ==
    [present |-> TRUE, id |-> id, organized |-> organized, files |-> files,
     urls |-> urls, tag_ids |-> <<>>]
Absent(id) ==
    [present |-> FALSE, id |-> id, organized |-> FALSE, files |-> <<>>,
     urls |-> <<>>, tag_ids |-> <<>>]
UrlStr(u) == [kind |-> "str", url |-> u]
UrlDict(u) == [kind |-> "dict", url |-> u]
File(path) == <<[path |-> path]>>

BeachUrl == "http://x/beach"

\* The History Store: the rows of browser_hist (US: historytitle, url) or
\* of moz_places (FH: title, url), in the store's order.
HistoryRows ==
    << [title |-> "Other", url |-> "http://b/bea"],
       [title |-> "beach", url |-> "http://LocalHost/beach"],
       [title |-> "beach walk", url |-> BeachUrl],
       [title |-> "beach walk", url |-> "http://y/beach2"],
       [title |-> "", url |-> "http://z/beach"],
       [title |-> "abcdefghi.mp4", url |-> "http://x/abc"],
       [title |-> "abcdefgh", url |-> "http://x/abc8"],
       [title |-> "beach", url |-> ""] >>
HistoryPresent == [ok |-> TRUE, rows |-> HistoryRows]
HistoryMissing == [ok |-> FALSE, rows |-> <<>>]
\* The History Store after another history was put in its place.
HistoryReplaced ==
    [ok |-> TRUE, rows |-> <<[title |-> "beach walk", url |-> "http://y/beach2"]>>]

\* A catalog with every kind of scene a scan classifies; its last id is 8.
MixedCatalog ==
    [i \in 1..MaxSceneId |->
        CASE i = 1 -> Scene(i, FALSE, File("/v/beach.mp4"), <<>>)
          [] i = 2 -> Scene(i, FALSE, File("/v/abcdefghi.mp.mp4"), <<>>)
          [] i = 3 -> Scene(i, TRUE, File("/v/beach.mp4"), <<>>)
          [] i = 4 -> Scene(i, FALSE, <<>>, <<>>)
          [] i = 5 -> Scene(i, FALSE, File("/v/zzz.mp4"), <<>>)
          [] i = 6 -> Scene(i, FALSE, File("/v/beach.mp4"), <<UrlStr("http://q"), UrlStr(BeachUrl)>>)
          [] i = 7 -> Scene(i, FALSE, File("/v/Beach-01.mp4"), <<UrlDict(BeachUrl)>>)
          [] i = 8 -> Scene(i, FALSE, File("/v/beach-02.mp4"), <<UrlStr("http://q")>>)
          [] OTHER -> Absent(i)]
\* A catalog in which every id holds a scene that matches the history;
\* scene 3 has a url of its own already.
RichCatalog ==
    [i \in 1..MaxSceneId |->
        Scene(i, FALSE, File("/v/beach.mp4"),
              IF i = 3 THEN <<UrlStr("http://q")>> ELSE <<>>)]
\* A catalog of file names: two whose key is empty (the first for the
\* lookups only, the second for the forward guard of FH as well), a plain
\* one and one with a numeric suffix.
KeyCatalog ==
    [i \in 1..MaxSceneId |->
        CASE i = 1 -> Scene(i, FALSE, File("/v/-01.mp4"), <<>>)
          [] i = 2 -> Scene(i, FALSE, File("/v/---.mp4"), <<>>)
          [] i = 3 -> Scene(i, FALSE, File("/v/beach.mp4"), <<>>)
          [] i = 4 -> Scene(i, FALSE, File("/v/Beach-01.mp4"), <<>>)
          [] OTHER -> Absent(i)]
\* A catalog without scenes.
EmptyCatalog == [i \in 1..MaxSceneId |-> Absent(i)]

\* The runs: a catalog, the ids for which find_scene / update_scene raise,
\* and the History Store.
Scenarios ==
    { [catalog |-> MixedCatalog, find_fails |-> {}, update_fails |-> {},
       db |-> HistoryPresent],
      [catalog |-> MixedCatalog, find_fails |-> {5}, update_fails |-> {1},
       db |-> HistoryPresent],
      [catalog |-> RichCatalog, find_fails |-> {}, update_fails |-> {2},
       db |-> HistoryPresent],
      [catalog |-> MixedCatalog, find_fails |-> {}, update_fails |-> {},
       db |-> HistoryMissing],
      [catalog |-> EmptyCatalog, find_fails |-> {}, update_fails |-> {},
       db |-> HistoryMissing] }

\* What the user types into the Start Scene ID entry.
StartIdInputs == {"0", "abc", "9"}

(***************************************************************************)
(* The classification of one scene by a scan                               *)
(***************************************************************************)
\* find_scene(sid) of the Catalog Service.
FindScene(cat, sid) ==
    IF sid \in 1..MaxSceneId THEN cat[sid] ELSE Absent(sid)

\* find_scenes(per_page 1, sort id DESC): the highest id, 0 when the
\* catalog holds no scene.
LastSceneId(cat) ==
    IF \E i \in 1..MaxSceneId : cat[i].present
    THEN CHOOSE i \in 1..MaxSceneId :
            /\ cat[i].present
            /\ \A j \in (i+1)..MaxSceneId : ~cat[j].present
    ELSE 0

\* max_id of a forward scan: the local is unbound when find_scenes raised
\* in US, "Unknown", or the id found.
MaxIdUnbound == [tag |-> "unbound", val |-> 0]
MaxIdUnknown == [tag |-> "unknown", val |-> 0]
MaxIdKnown(n) == [tag |-> "known", val |-> n]

\* os.path.splitext(os.path.basename(files[0]["path"]))[0].  The names of
\* the files of the modelled catalogs are evaluated once and kept in
\* BaseFilenameTable.
CatalogPaths ==
    {"/v/beach.mp4", "/v/zzz.mp4", "/v/Beach-01.mp4", "/v/beach-02.mp4",
     "/v/abcdefghi.mp.mp4", "/v/-01.mp4", "/v/---.mp4"}
BaseFilenameTable ==
    { [path |-> p, name |-> SplitextRoot(Basename(p))] : p \in CatalogPaths }
BaseFilename(scene) ==
    IF scene.files[1].path \in CatalogPaths
    THEN (CHOOSE r \in BaseFilenameTable : r.path = scene.files[1].path).name
    ELSE SplitextRoot(Basename(scene.files[1].path))

\* A duplicate check that reads the bare strings only.
UrlAlreadyExists_StringsOnly(existing_urls, candidate_url) ==
    \E k \in 1..Len(existing_urls) :
        existing_urls[k].kind = "str" /\ existing_urls[k].url = candidate_url

\* The duplicate check: the candidate url is among the scene's urls, held
\* as a bare string or in a {url} object.
UrlAlreadyExists(existing_urls, candidate_url) ==
    \E k \in 1..Len(existing_urls) :
        \/ existing_urls[k].kind = "dict" /\ existing_urls[k].url = candidate_url
        \/ existing_urls[k].kind # "dict" /\ existing_urls[k].url = candidate_url

\* get_firefox_urls of the program that runs.  The lookups for the file
\* names of the modelled catalogs in the History Store are evaluated once
\* and kept in LookupTable; every other lookup is evaluated where it is made.
LookupNames ==
    {"beach", "zzz", "Beach-01", "beach-02", "abcdefghi.mp", "No file found",
     "-01", "---"}
LookupTable ==
    { [a |-> "US", name |-> n, db |-> d, rows |-> get_firefox_urls_US(n, d)]
        : n \in LookupNames, d \in {HistoryPresent, HistoryReplaced} }
    \cup
    { [a |-> "FH", name |-> n, db |-> d, rows |-> get_firefox_urls_FH(n, d)]
        : n \in LookupNames, d \in {HistoryPresent, HistoryReplaced} }
get_firefox_urls(a, base_filename, db) ==
    IF db \in {HistoryPresent, HistoryReplaced} /\ base_filename \in LookupNames
    THEN (CHOOSE r \in LookupTable :
             r.a = a /\ r.name = base_filename /\ r.db = db).rows
    ELSE IF a = "US" THEN get_firefox_urls_US(base_filename, db)
    ELSE get_firefox_urls_FH(base_filename, db)

\* US: what the loop body does with the candidates of a scene.
Candidate_US(scene, candidates) ==
    IF candidates = <<>> THEN "NoCandidate"
    ELSE IF UrlAlreadyExists(scene.urls, candidates[1].url) THEN "Duplicate"
    ELSE "Accepted"

\* A US loop body that looks at the files and the candidates first and at
\* the organized flag last.
Classify_US_OrganizedLast(scene, skip_organized, db) ==
    IF ~scene.present THEN "NotFound"
    ELSE IF scene.files = <<>> THEN "NoFile"
    ELSE LET outcome == Candidate_US(scene,
                 get_firefox_urls("US", BaseFilename(scene), db))
         IN  IF outcome # "Accepted" /\ skip_organized /\ scene.organized
             THEN "Organized" ELSE outcome

\* One pass of the US loop body after find_scene returned.
Classify_US(scene, skip_organized, db) ==
    IF ~scene.present THEN "NotFound"
    ELSE IF skip_organized /\ scene.organized THEN "Organized"
    ELSE IF scene.files = <<>> THEN "NoFile"
    ELSE Candidate_US(scene, get_firefox_urls("US", BaseFilename(scene), db))

\* sanitize_for_windows of FH as the forward scan calls it.  The keys of
\* the titles of the History Store and of the file names of the modelled
\* catalogs are evaluated once and kept in SanitizeTable.
SanitizeNames ==
    LookupNames \cup {HistoryRows[k].title : k \in 1..Len(HistoryRows)}
SanitizeTable ==
    { [text |-> x, key |-> sanitize_for_windows_FH(x)] : x \in SanitizeNames }
Sanitized_FH(text) ==
    IF text \in SanitizeNames
    THEN (CHOOSE r \in SanitizeTable : r.text = text).key
    ELSE sanitize_for_windows_FH(text)

\* The acceptance guard of the FH forward scan.
ForwardGuard(candidate_title, base_filename) ==
    StartsWith(Sanitized_FH(candidate_title), Sanitized_FH(base_filename))

\* FH forward: what the loop body does with the candidates of a scene.
Candidate_FH(scene, base_filename, candidates) ==
    IF candidates = <<>> THEN "NoCandidate"
    ELSE IF ~ForwardGuard(candidates[1].title, base_filename) THEN "NoCandidate"
    ELSE IF UrlAlreadyExists(scene.urls, candidates[1].url) THEN "Duplicate"
    ELSE "Accepted"

\* One pass of the FH forward loop body after find_scene returned.
Classify_FH(scene, db) ==
    IF ~scene.present THEN "NotFound"
    ELSE IF scene.files = <<>> THEN "NoFile"
    ELSE Candidate_FH(scene, BaseFilename(scene),
                      get_firefox_urls("FH", BaseFilename(scene), db))

\* FH backward: what the loop body does with the candidates of a scene.
Candidate_FH_backward(base_filename, candidates) ==
    IF candidates = <<>> THEN "NoCandidate"
    ELSE IF ~StartsWith(candidates[1].title, base_filename) THEN "NoCandidate"
    ELSE "Accepted"

\* A backward loop body without the test of urls and organized.
Classify_FH_backward_Lenient(scene, db) ==
    IF ~scene.present THEN "NotFound"
    ELSE IF scene.files = <<>> THEN "NoFile"
    ELSE Candidate_FH_backward(BaseFilename(scene),
             get_firefox_urls("FH", BaseFilename(scene), db))

\* One pass of the FH backward loop body after find_scene returned.
Classify_FH_backward(scene, db) ==
    IF ~scene.present THEN "NotFound"
    ELSE IF scene.urls # <<>> \/ scene.organized THEN "Ineligible"
    ELSE IF scene.files = <<>> THEN "NoFile"
    ELSE Candidate_FH_backward(BaseFilename(scene),
             get_firefox_urls("FH", BaseFilename(scene), db))

\* A loop condition that lets one scene too many in.
BatchNotFull_OneMore(valid_scenes) == Len(valid_scenes) <= TARGET_SCENE_COUNT

\* while len(valid_scenes) < TARGET_SCENE_COUNT
BatchNotFull(valid_scenes) == Len(valid_scenes) < TARGET_SCENE_COUNT

\* A test of exhaustion that gives up at the first missing scene when the
\* maximum id is not known.
Exhausted_US_OrUnknown(max_id, sid) == max_id.tag = "known" => sid > max_id.val

\* US: if max_id != "Unknown" and sid > int(max_id): break
Exhausted_US(max_id, sid) == max_id.tag = "known" /\ sid > max_id.val

\* A next start id without the floor.
NextStartBackward_NoFloor(sid) == sid

\* FH backward: next_start = sid if sid > 0 else 1
NextStartBackward(sid) == IF sid > 0 THEN sid ELSE 1

(***************************************************************************)
(* The rows of the middle panel                                            *)
(***************************************************************************)
\* load_current_scenes, the text of one scene's url label.
LabelOf(cands) ==
    IF cands # <<>> /\ cands[1].url # "" THEN cands[1].url ELSE "No URL found"
RowUrl(a, scene, db) ==
    LabelOf(get_firefox_urls(a, IF scene.files # <<>> THEN BaseFilename(scene)
                                ELSE "No file found", db))

\* load_current_scenes: the url labels and checkboxes of the rows.  In US
\* each scene's row ends with sleep_with_pause(0.1): with the pause event
\* cleared the handler blocks there, after the first scene's row.
Rows(a, theScenes, labels, checks, paused, db) ==
    LET blocks == a = "US" /\ paused /\ theScenes # <<>>
    IN  [labels |->
            [i \in 1..TARGET_SCENE_COUNT |->
                IF blocks /\ i > 1 THEN labels[i]
                ELSE IF i > Len(theScenes) THEN "No URL"
                ELSE RowUrl(a, theScenes[i], db)],
         checks |->
            [i \in 1..TARGET_SCENE_COUNT |->
                IF blocks /\ i > 1 THEN checks[i]
                ELSE i <= Len(theScenes)],
         blocked |-> blocks]

(***************************************************************************)
(* State                                                                   *)
(***************************************************************************)
VARIABLES
    app,                \* "US" or "FH": the program that runs
    env,                \* [find_fails, update_fails, db]: the faults of the
                        \* Catalog Service and the History Store of this run
    catalog,            \* the scenes of the Catalog Service
    scenes,             \* self.scenes: the batch last delivered
    start_id_var,       \* the text of the Start Scene ID entry
    pause_event,        \* US: threading.Event, TRUE when set (running)
    loading_paused,     \* FH: self.loading_paused
    skip_organized_var, \* US: the Skip Organized Scenes checkbox
    load_button,        \* US: state of the Load Scenes button
    url_labels,         \* text of the url label of each row
    checkbox_vars,      \* checkbox of each row
    worker,             \* the worker threads
    afterQ,             \* callbacks handed to the main thread by after(0, ..)
    uiBlocked,          \* the main thread sits in pause_event.wait()
    lookup,             \* one call of get_firefox_urls, step by step
    norm,               \* one text put through a Normalizer, twice
    hist,               \* US: the Copy Places popup and browserHistory.db
    accepted_urls       \* for each scene of the batch last delivered, the
                        \* url of the candidate its scan accepted it for
                        \* (records the history, read by no action)

vars == <<app, env, catalog, scenes, start_id_var, pause_event, loading_paused,
          skip_organized_var, load_button, url_labels, checkbox_vars, worker,
          afterQ, uiBlocked, lookup, norm, hist, accepted_urls>>

\* A thread slot.  kind: "free" (not started yet), "scan", "update" or
\* "done" (the thread function returned); pc: where the thread is;
\* last_requested (the id of this scan's latest find_scene, -1 before the
\* first), since_pause (requests issued since pause was requested, counted
\* to 2) and exit (how the thread ended before its loop was over: "connect",
\* "start_id", "find_scene" or "max_id"; "none" otherwise), failed (the
\* rows of an update pass whose find_tag or update_scene raised),
\* stale_update (the pass has sent update_scene for a scene that had the
\* url in the Catalog Service already) and accepted (for each scene of
\* valid_scenes the url of the candidate it was accepted for) record the
\* history of the thread and are read by no action.
IdleWorker ==
    [kind |-> "free", pc |-> "none", dir |-> "none", sid |-> 0,
     valid_scenes |-> <<>>, max_id |-> MaxIdUnknown, notfound |-> FALSE,
     i |-> 0, updated_scenes_count |-> 0,
     last_requested |-> -1, since_pause |-> 0, exit |-> "none",
     failed |-> 0, stale_update |-> FALSE, accepted |-> <<>>]

DoneWorker == [IdleWorker EXCEPT !.kind = "done"]
\* A scan that returned from one of its except blocks before the loop.
AbortedWorker(connected) ==
    [DoneWorker EXCEPT !.exit = IF connected THEN "start_id" ELSE "connect"]

\* A setup that goes on with a start id it could not read.
SetupAborts_ConnectOnly(connected, start) == ~connected

\* The scan returns before its loop: StashInterface(...) raised, or
\* int(self.start_id_var.get()) did.
SetupAborts(connected, start) == ~connected \/ ~start.ok

\* A forward cursor that stays where it is.
Advance_Stuck(sid) == sid
\* sid += 1
Advance(sid) == IF sid < MaxSid THEN sid + 1 ELSE MaxSid - 1

\* A thread that died of an unhandled exception keeps its last state.
Crashed(t) == worker[t].pc = "crashed"
Active(t) == worker[t].kind \in {"scan", "update"} /\ ~Crashed(t)
FreeSlots == {t \in Threads : worker[t].kind = "free"}

Paused == IF app = "US" THEN ~pause_event ELSE loading_paused

\* The Copy Places popup before a file is selected, and no browser_hist
\* table.  db_loaded and valid (valid_tables is not empty) are the popup's;
\* temp is the url/title table of temp_browserHistory.db; browser_hist is
\* the table of browserHistory.db, rows [id, url, title] in the order of
\* their ids; seq is the highest id AUTOINCREMENT has given; appended (the
\* table between append_to_browser_history_db and remove_duplicates of the
\* last save) and saves (the saves done) record the history and are read by
\* no action.
\* temp_exists says whether temp_browserHistory.db is there and
\* clean_button is the state of the Clean URLs button.  last_op (the last
\* handler of the popup that ran) and saved (the rows the last save read,
\* when nothing but saves touched browser_hist since) record the history
\* too.  The columns browser and historytitle of browser_hist, which no
\* definition reads, are left out of the rows.
NoSaved == [some |-> FALSE, rows |-> <<>>]
NoHist == [db_loaded |-> FALSE, valid |-> FALSE, temp |-> <<>>,
           browser_hist |-> <<>>, seq |-> 0, appended |-> <<>>, saves |-> 0,
           temp_exists |-> FALSE, clean_button |-> "disabled",
           last_op |-> "none", saved |-> NoSaved]

\* No text is put through a Normalizer.
NoNorm == [stage |-> "none", policy |-> "none", input |-> "", output |-> "",
           again |-> ""]

\* No call of get_firefox_urls is followed step by step.
NoLookup ==
    [stage |-> "none", base_filename |-> "", results |-> <<>>,
     filtered |-> <<>>, returned |-> <<>>]

Init ==
    /\ app \in {"US", "FH"}
    /\ \E sc \in Scenarios :
          /\ env = [find_fails |-> sc.find_fails,
                    update_fails |-> sc.update_fails, db |-> sc.db]
          /\ catalog = sc.catalog
    /\ scenes = <<>>
    /\ start_id_var = "1"
    /\ pause_event = TRUE
    /\ loading_paused = FALSE
    /\ skip_organized_var = TRUE
    /\ load_button = "normal"
    /\ url_labels = [i \in 1..TARGET_SCENE_COUNT |-> ""]
    /\ checkbox_vars = [i \in 1..TARGET_SCENE_COUNT |-> TRUE]
    /\ worker = [t \in Threads |-> IdleWorker]
    /\ afterQ = <<>>
    /\ uiBlocked = FALSE
    /\ lookup = NoLookup
    /\ norm = NoNorm
    /\ hist = NoHist
    /\ accepted_urls = <<>>

(***************************************************************************)
(* Helpers of the actions                                                  *)
(***************************************************************************)
\* threading.Thread(target=..., daemon=True).start(): the thread takes the
\* first slot not used yet.
StartThread(w, rec) ==
    LET t == CHOOSE x \in FreeSlots : \A y \in FreeSlots : x <= y
    IN  [w EXCEPT ![t] = rec]

NewScan(dir) == [IdleWorker EXCEPT !.kind = "scan", !.pc = "setup", !.dir = dir]
NewUpdate ==
    [IdleWorker EXCEPT !.kind = "update",
                       !.pc = IF app = "US" THEN "uwait" ELSE "ubody"]

ResetSincePause(w) == [t \in Threads |-> [w[t] EXCEPT !.since_pause = 0]]

\* The count of requests since pause was requested, after one more request.
CountRequest(n) == IF Paused THEN (IF n < 2 THEN n + 1 ELSE 2) ELSE 0

\* candidates[0][1] of a scene the scan accepts.
AcceptedUrl(a, scene, db) == get_firefox_urls(a, BaseFilename(scene), db)[1].url

\* self.after(0, lambda: self._finish_load_scenes(valid_scenes, max_id,
\* next_start)); dir, last_requested and accepted record the scan that
\* posts it.
FinishCallback(w, next_start) ==
    [op |-> "finish", valid_scenes |-> w.valid_scenes, max_id |-> w.max_id,
     next_start |-> next_start, dir |-> w.dir, last_requested |-> w.last_requested,
     accepted |-> w.accepted]

\* The callbacks an update pass posts when its loop is over.
UpdateCallbacks(count) ==
    <<[op |-> "load_scenes"]>>
        \o (IF count = 0 THEN <<[op |-> "msg_skipped"]>> ELSE <<>>)

(***************************************************************************)
(* US: the forward scan, _load_scenes_thread of urlstashgui.py             *)
(***************************************************************************)
\* Up to the loop: connect, ask for the maximum id, read the start id.
US_ScanSetup(t) ==
    /\ app = "US"
    /\ worker[t].kind = "scan" /\ worker[t].pc = "setup"
    /\ \E connected \in BOOLEAN, max_query \in {"ok", "raise"} :
          LET start == ParseInt(start_id_var)
              last == LastSceneId(catalog)
              max_id == IF max_query = "raise" THEN MaxIdUnbound
                        ELSE IF last = 0 THEN MaxIdUnknown
                        ELSE MaxIdKnown(last)
          IN  IF SetupAborts(connected, start)
              THEN /\ worker' = [worker EXCEPT ![t] = AbortedWorker(connected)]
                   /\ afterQ' = Append(afterQ, [op |-> "enable_load"])
              ELSE /\ worker' = [worker EXCEPT ![t].pc = "wait",
                                               ![t].sid = start.val,
                                               ![t].max_id = max_id]
                   /\ afterQ' = afterQ
    /\ UNCHANGED <<accepted_urls, hist, norm, lookup, app, env, catalog, scenes, start_id_var, pause_event,
                   loading_paused, skip_organized_var, load_button,
                   url_labels, checkbox_vars, uiBlocked>>

\* self.pause_event.wait() at the top of the loop.
US_ScanWait(t) ==
    /\ app = "US"
    /\ worker[t].kind = "scan" /\ worker[t].pc = "wait"
    /\ pause_event
    /\ worker' = [worker EXCEPT ![t].pc = "find"]
    /\ UNCHANGED <<accepted_urls, hist, norm, lookup, app, env, catalog, scenes, start_id_var, pause_event,
                   loading_paused, skip_organized_var, load_button,
                   url_labels, checkbox_vars, afterQ, uiBlocked>>

\* find_scene(sid), sid += 1 and the classification of the scene.  An
\* exception of find_scene is caught nowhere and ends the thread.
US_ScanStep(t) ==
    /\ app = "US"
    /\ worker[t].kind = "scan" /\ worker[t].pc = "find"
    /\ \E outcome \in {Classify_US(FindScene(catalog, worker[t].sid),
                                     skip_organized_var, env.db)} :
       LET w == worker[t]
           scene == FindScene(catalog, w.sid)
       IN  IF w.sid \in env.find_fails
           THEN worker' = [worker EXCEPT
                    ![t].pc = "crashed",
                    ![t].exit = "find_scene",
                    ![t].last_requested = w.sid,
                    ![t].since_pause = CountRequest(@)]
           ELSE worker' = [worker EXCEPT
                    ![t].pc = "sleep",
                    ![t].sid = Advance(w.sid),
                    ![t].notfound = (outcome = "NotFound"),
                    ![t].valid_scenes =
                        IF outcome = "Accepted" THEN Append(@, scene) ELSE @,
                    ![t].accepted =
                        IF outcome = "Accepted"
                        THEN Append(@, AcceptedUrl("US", scene, env.db)) ELSE @,
                    ![t].last_requested = w.sid,
                    ![t].since_pause = CountRequest(@)]
    /\ UNCHANGED <<accepted_urls, hist, norm, lookup, app, env, catalog, scenes, start_id_var, pause_event,
                   loading_paused, skip_organized_var, load_button,
                   url_labels, checkbox_vars, afterQ, uiBlocked>>

\* sleep_with_pause(0.2) at the end of a pass, the test of max_id after a
\* scene that was not found, the loop condition and the wait at the top of
\* the next pass.  max_id is an unbound local when find_scenes raised: its
\* test ends the thread with UnboundLocalError.
US_ScanSleep(t) ==
    /\ app = "US"
    /\ worker[t].kind = "scan" /\ worker[t].pc = "sleep"
    /\ pause_event
    /\ LET w == worker[t]
       IN  IF w.notfound /\ w.max_id.tag = "unbound"
           THEN /\ worker' = [worker EXCEPT ![t].pc = "crashed",
                                            ![t].exit = "max_id"]
                /\ afterQ' = afterQ
           ELSE IF \/ w.notfound /\ Exhausted_US(w.max_id, w.sid)
                   \/ ~BatchNotFull(w.valid_scenes)
           THEN /\ worker' = [worker EXCEPT ![t] = DoneWorker]
                /\ afterQ' = Append(afterQ, FinishCallback(w, w.sid))
           ELSE /\ worker' = [worker EXCEPT ![t].pc = "find"]
                /\ afterQ' = afterQ
    /\ UNCHANGED <<accepted_urls, hist, norm, lookup, app, env, catalog, scenes, start_id_var, pause_event,
                   loading_paused, skip_organized_var, load_button,
                   url_labels, checkbox_vars, uiBlocked>>

(***************************************************************************)
(* FH: the forward scan, _load_scenes_thread of FirefoxHistory_stashGUI.py *)
(***************************************************************************)
FH_ScanSetup(t) ==
    /\ app = "FH"
    /\ worker[t].kind = "scan" /\ worker[t].pc = "setup"
    /\ worker[t].dir = "forward"
    /\ \E connected \in BOOLEAN, max_query \in {"ok", "raise"} :
          LET start == ParseInt(start_id_var)
              last == LastSceneId(catalog)
              max_id == IF max_query = "raise" \/ last = 0 THEN MaxIdUnknown
                        ELSE MaxIdKnown(last)
          IN  IF SetupAborts(connected, start)
              THEN worker' = [worker EXCEPT ![t] = AbortedWorker(connected)]
              ELSE worker' = [worker EXCEPT ![t].pc = "find",
                                            ![t].sid = start.val,
                                            ![t].max_id = max_id]
    /\ UNCHANGED <<accepted_urls, hist, norm, lookup, app, env, catalog, scenes, start_id_var, pause_event,
                   loading_paused, skip_organized_var, load_button,
                   url_labels, checkbox_vars, afterQ, uiBlocked>>

\* One pass of the loop: find_scene(sid) in its try block, sid += 1, the
\* classification, and the loop condition.
FH_ScanStep(t) ==
    /\ app = "FH"
    /\ worker[t].kind = "scan" /\ worker[t].pc = "find"
    /\ worker[t].dir = "forward"
    /\ \E outcome \in {IF worker[t].sid \in env.find_fails THEN "Error"
                        ELSE Classify_FH(FindScene(catalog, worker[t].sid),
                                         env.db)} :
       \E after \in {[worker[t] EXCEPT
                       !.sid = Advance(@),
                       !.valid_scenes =
                           IF outcome = "Accepted"
                           THEN Append(@, FindScene(catalog, worker[t].sid))
                           ELSE @,
                       !.accepted =
                           IF outcome = "Accepted"
                           THEN Append(@, AcceptedUrl("FH",
                                    FindScene(catalog, worker[t].sid), env.db))
                           ELSE @,
                       !.last_requested = worker[t].sid,
                       !.since_pause = CountRequest(@)]} :
           IF BatchNotFull(after.valid_scenes)
           THEN /\ worker' = [worker EXCEPT ![t] = after]
                /\ afterQ' = afterQ
           ELSE /\ worker' = [worker EXCEPT ![t] = DoneWorker]
                /\ afterQ' = Append(afterQ, FinishCallback(after, after.sid))
    /\ UNCHANGED <<accepted_urls, hist, norm, lookup, app, env, catalog, scenes, start_id_var, pause_event,
                   loading_paused, skip_organized_var, load_button,
                   url_labels, checkbox_vars, uiBlocked>>

(***************************************************************************)
(* FH: the backward scan, _load_scenes_backward_thread                     *)
(***************************************************************************)
\* A loop condition that lets the cursor pass the floor by one id.
BackwardContinues_ThroughZero(valid_scenes, sid) ==
    BatchNotFull(valid_scenes) /\ sid >= 0

\* while len(valid_scenes) < TARGET_SCENE_COUNT and sid > 0
BackwardContinues(valid_scenes, sid) == BatchNotFull(valid_scenes) /\ sid > 0

FH_BackwardSetup(t) ==
    /\ app = "FH"
    /\ worker[t].kind = "scan" /\ worker[t].pc = "setup"
    /\ worker[t].dir = "backward"
    /\ \E connected \in BOOLEAN :
          LET start == ParseInt(start_id_var)
              w == [worker[t] EXCEPT !.sid = start.val]
          IN  IF SetupAborts(connected, start)
              THEN /\ worker' = [worker EXCEPT ![t] = AbortedWorker(connected)]
                   /\ afterQ' = afterQ
              ELSE IF BackwardContinues(w.valid_scenes, w.sid)
              THEN /\ worker' = [worker EXCEPT ![t] = [w EXCEPT !.pc = "gate"]]
                   /\ afterQ' = afterQ
              ELSE /\ worker' = [worker EXCEPT ![t] = DoneWorker]
                   /\ afterQ' = Append(afterQ,
                                    FinishCallback(w, NextStartBackward(w.sid)))
    /\ UNCHANGED <<accepted_urls, hist, norm, lookup, app, env, catalog, scenes, start_id_var, pause_event,
                   loading_paused, skip_organized_var, load_button,
                   url_labels, checkbox_vars, uiBlocked>>

\* while self.loading_paused: time.sleep(0.5)
FH_BackwardGate(t) ==
    /\ app = "FH"
    /\ worker[t].kind = "scan" /\ worker[t].pc = "gate"
    /\ ~loading_paused
    /\ worker' = [worker EXCEPT ![t].pc = "find"]
    /\ UNCHANGED <<accepted_urls, hist, norm, lookup, app, env, catalog, scenes, start_id_var, pause_event,
                   loading_paused, skip_organized_var, load_button,
                   url_labels, checkbox_vars, afterQ, uiBlocked>>

\* One pass: find_scene(sid) in its try block, sid -= 1, the
\* classification, and the loop condition.
FH_BackwardStep(t) ==
    /\ app = "FH"
    /\ worker[t].kind = "scan" /\ worker[t].pc = "find"
    /\ worker[t].dir = "backward"
    /\ \E outcome \in {IF worker[t].sid \in env.find_fails THEN "Error"
                        ELSE Classify_FH_backward(
                                 FindScene(catalog, worker[t].sid), env.db)} :
       \E after \in {[worker[t] EXCEPT
                       !.sid = @ - 1,
                       !.valid_scenes =
                           IF outcome = "Accepted"
                           THEN Append(@, FindScene(catalog, worker[t].sid))
                           ELSE @,
                       !.accepted =
                           IF outcome = "Accepted"
                           THEN Append(@, AcceptedUrl("FH",
                                    FindScene(catalog, worker[t].sid), env.db))
                           ELSE @,
                       !.last_requested = worker[t].sid,
                       !.since_pause = CountRequest(@)]} :
           IF BackwardContinues(after.valid_scenes, after.sid)
           THEN /\ worker' = [worker EXCEPT ![t] = [after EXCEPT !.pc = "gate"]]
                /\ afterQ' = afterQ
           ELSE /\ worker' = [worker EXCEPT ![t] = DoneWorker]
                /\ afterQ' = Append(afterQ,
                        FinishCallback([after EXCEPT !.max_id = MaxIdUnknown],
                                       NextStartBackward(after.sid)))
    /\ UNCHANGED <<accepted_urls, hist, norm, lookup, app, env, catalog, scenes, start_id_var, pause_event,
                   loading_paused, skip_organized_var, load_button,
                   url_labels, checkbox_vars, uiBlocked>>

(***************************************************************************)
(* The update pass, _accept_candidates_thread                              *)
(***************************************************************************)
\* The duplicate re-check of the update pass.
SelectedUrlExists(existing_urls, selected_url) ==
    \E k \in 1..Len(existing_urls) : existing_urls[k].url = selected_url

\* What the pass does with the scene of one row.
UpdateOutcome_US(scene, checked, selected_url, fails) ==
    IF ~checked THEN "Unchecked"
    ELSE IF ~StartsWith(selected_url, "http") THEN "NoValidUrl"
    ELSE IF SelectedUrlExists(scene.urls, selected_url) THEN "Duplicate"
    ELSE IF scene.id \in fails THEN "Failed"
    ELSE "Updated"

UpdateOutcome_FH(scene, checked, selected_url, fails) ==
    IF ~checked THEN "Unchecked"
    ELSE IF SelectedUrlExists(scene.urls, selected_url) THEN "Duplicate"
    ELSE IF ~StartsWith(selected_url, "http") THEN "NoValidUrl"
    ELSE IF scene.id \in fails THEN "Failed"
    ELSE "Updated"

\* A count that is raised before the Catalog Service has answered.
CountUpdated_Attempted(count, outcome) ==
    IF outcome \in {"Updated", "Failed"} THEN count + 1 ELSE count

\* updated_scenes_count += 1, the last statement of the try block.
CountUpdated(count, outcome) ==
    IF outcome = "Updated" THEN count + 1 ELSE count

\* The row's update_scene reaches a scene that has the url already.
StaleUpdate(cat, scene, selected_url, outcome) ==
    /\ outcome = "Updated"
    /\ \E k \in 1..Len(cat[scene.id].urls) :
          cat[scene.id].urls[k].url = selected_url

\* update_scene of the Catalog Service.  US sends 'urls': the scene's urls
\* as the scan saw them plus the selected url; FH sends 'url', the single
\* url field, which the service stores as the scene's only url.  Both send
\* the id of the URLHistory tag as tag_ids.
UpdatedScene(a, current, scene, selected_url) ==
    [current EXCEPT
        !.urls = IF a = "US" THEN scene.urls \o <<UrlStr(selected_url)>>
                 ELSE <<UrlStr(selected_url)>>,
        !.tag_ids = <<"URLHistory">>]

\* US: pause_event.wait() at the top of a pass (with the sleep_with_pause
\* that ended the pass before); after the tenth pass the loop is over.
US_UpdateWait(t) ==
    /\ app = "US"
    /\ worker[t].kind = "update" /\ worker[t].pc = "uwait"
    /\ pause_event
    /\ IF worker[t].i = TARGET_SCENE_COUNT
       THEN /\ worker' = [worker EXCEPT ![t] = DoneWorker]
            /\ afterQ' = afterQ \o UpdateCallbacks(worker[t].updated_scenes_count)
       ELSE /\ worker' = [worker EXCEPT ![t].pc = "ubody"]
            /\ afterQ' = afterQ
    /\ UNCHANGED <<accepted_urls, hist, norm, lookup, app, env, catalog, scenes, start_id_var, pause_event,
                   loading_paused, skip_organized_var, load_button,
                   url_labels, checkbox_vars, uiBlocked>>

\* US: the body of one pass of the loop over the rows.
US_UpdateBody(t) ==
    /\ app = "US"
    /\ worker[t].kind = "update" /\ worker[t].pc = "ubody"
    /\ LET w == worker[t]
           row == w.i + 1
       IN  IF w.i >= Len(scenes)
           THEN /\ worker' = [worker EXCEPT ![t] = DoneWorker]
                /\ afterQ' = afterQ \o UpdateCallbacks(w.updated_scenes_count)
                /\ catalog' = catalog
           ELSE LET scene == scenes[row]
                    outcome == UpdateOutcome_US(scene, checkbox_vars[row],
                                   url_labels[row], env.update_fails)
                    count == CountUpdated(w.updated_scenes_count, outcome)
                IN  /\ catalog' =
                          IF outcome = "Updated"
                          THEN [catalog EXCEPT ![scene.id] =
                                   UpdatedScene("US", @, scene, url_labels[row])]
                          ELSE catalog
                    /\ IF outcome = "Duplicate" /\ row = TARGET_SCENE_COUNT
                       THEN /\ worker' = [worker EXCEPT ![t] = DoneWorker]
                            /\ afterQ' = afterQ \o UpdateCallbacks(count)
                       ELSE /\ worker' = [worker EXCEPT
                                   ![t].pc = "uwait",
                                   ![t].i = row,
                                   ![t].updated_scenes_count = count,
                                   ![t].failed =
                                       IF outcome = "Failed" THEN @ + 1 ELSE @,
                                   ![t].stale_update =
                                       @ \/ StaleUpdate(catalog, scene,
                                                url_labels[row], outcome)]
                            /\ afterQ' = afterQ
    /\ UNCHANGED <<accepted_urls, hist, norm, lookup, app, env, scenes, start_id_var, pause_event,
                   loading_paused, skip_organized_var, load_button,
                   url_labels, checkbox_vars, uiBlocked>>

\* FH: one pass of the loop over the rows, or its end.
FH_UpdateBody(t) ==
    /\ app = "FH"
    /\ worker[t].kind = "update" /\ worker[t].pc = "ubody"
    /\ LET w == worker[t]
           row == w.i + 1
       IN  IF w.i = TARGET_SCENE_COUNT \/ w.i >= Len(scenes)
           THEN /\ worker' = [worker EXCEPT ![t] = DoneWorker]
                /\ afterQ' = afterQ \o UpdateCallbacks(w.updated_scenes_count)
                /\ catalog' = catalog
           ELSE LET scene == scenes[row]
                    outcome == UpdateOutcome_FH(scene, checkbox_vars[row],
                                   url_labels[row], env.update_fails)
                IN  /\ catalog' =
                          IF outcome = "Updated"
                          THEN [catalog EXCEPT ![scene.id] =
                                   UpdatedScene("FH", @, scene, url_labels[row])]
                          ELSE catalog
                    /\ worker' = [worker EXCEPT
                           ![t].i = row,
                           ![t].updated_scenes_count = CountUpdated(@, outcome),
                           ![t].failed =
                               IF outcome = "Failed" THEN @ + 1 ELSE @,
                           ![t].stale_update =
                               @ \/ StaleUpdate(catalog, scene,
                                        url_labels[row], outcome)]
                    /\ afterQ' = afterQ
    /\ UNCHANGED <<accepted_urls, hist, norm, lookup, app, env, scenes, start_id_var, pause_event,
                   loading_paused, skip_organized_var, load_button,
                   url_labels, checkbox_vars, uiBlocked>>

(***************************************************************************)
(* The main thread: callbacks of after(0, ...)                             *)
(***************************************************************************)
\* load_scenes: US disables the Load Scenes button, FH clears
\* loading_paused; both start a forward scan.
load_scenes ==
    /\ FreeSlots # {}
    /\ load_button' = IF app = "US" THEN "disabled" ELSE load_button
    /\ loading_paused' = IF app = "FH" THEN FALSE ELSE loading_paused
    /\ worker' = StartThread(IF app = "FH" /\ loading_paused
                             THEN ResetSincePause(worker) ELSE worker,
                             NewScan("forward"))

\* US: self.load_button.config(state="normal") after a scan gave up.
AfterEnableLoad ==
    /\ ~uiBlocked
    /\ afterQ # <<>> /\ Head(afterQ).op = "enable_load"
    /\ afterQ' = Tail(afterQ)
    /\ load_button' = "normal"
    /\ UNCHANGED <<accepted_urls, hist, norm, lookup, app, env, catalog, scenes, start_id_var, pause_event,
                   loading_paused, skip_organized_var, url_labels,
                   checkbox_vars, worker, uiBlocked>>

\* _finish_load_scenes: the batch and the next start id are taken over and
\* the rows are filled.  In US the callback's lambda reads max_id: when
\* that local is unbound the callback raises NameError and does nothing.
\* In FH self.load_button does not exist: the last line raises
\* AttributeError after everything else is done.
AfterFinish ==
    /\ ~uiBlocked
    /\ afterQ # <<>> /\ Head(afterQ).op = "finish"
    /\ afterQ' = Tail(afterQ)
    /\ \E rows \in {Rows(app, Head(afterQ).valid_scenes, url_labels,
                           checkbox_vars, ~pause_event, env.db)} :
       LET cb == Head(afterQ)
       IN  IF cb.max_id.tag = "unbound"
           THEN UNCHANGED <<scenes, start_id_var, url_labels, checkbox_vars,
                            uiBlocked, load_button, accepted_urls>>
           ELSE /\ scenes' = cb.valid_scenes
                /\ accepted_urls' = cb.accepted
                /\ start_id_var' = ToString(cb.next_start)
                /\ url_labels' = rows.labels
                /\ checkbox_vars' = rows.checks
                /\ uiBlocked' = rows.blocked
                /\ load_button' = IF app = "US" /\ ~rows.blocked THEN "normal"
                                  ELSE load_button
    /\ UNCHANGED <<hist, norm, lookup, app, env, catalog, pause_event, loading_paused,
                   skip_organized_var, worker>>

\* self.after(0, self.load_scenes), posted by an update pass.
AfterLoadScenes ==
    /\ ~uiBlocked
    /\ afterQ # <<>> /\ Head(afterQ).op = "load_scenes"
    /\ afterQ' = Tail(afterQ)
    /\ load_scenes
    /\ UNCHANGED <<accepted_urls, hist, norm, lookup, app, env, catalog, scenes, start_id_var, pause_event,
                   skip_organized_var, url_labels, checkbox_vars, uiBlocked>>

\* messagebox.showinfo("Skipped", "No URLs were saved.")
AfterMessage ==
    /\ ~uiBlocked
    /\ afterQ # <<>> /\ Head(afterQ).op = "msg_skipped"
    /\ afterQ' = Tail(afterQ)
    /\ UNCHANGED <<accepted_urls, hist, norm, lookup, app, env, catalog, scenes, start_id_var, pause_event,
                   loading_paused, skip_organized_var, load_button,
                   url_labels, checkbox_vars, worker, uiBlocked>>

(***************************************************************************)
(* The main thread: what the user does                                     *)
(***************************************************************************)
\* US: the Load Scenes button, while it is enabled.
US_ClickLoadScenes ==
    /\ app = "US" /\ ~uiBlocked
    /\ load_button = "normal"
    /\ load_scenes
    /\ UNCHANGED <<accepted_urls, hist, norm, lookup, app, env, catalog, scenes, start_id_var, pause_event,
                   skip_organized_var, url_labels, checkbox_vars, afterQ,
                   uiBlocked>>

\* US: the Forward >> button: forward_block calls load_scenes.
US_ClickForward ==
    /\ app = "US" /\ ~uiBlocked
    /\ load_scenes
    /\ UNCHANGED <<accepted_urls, hist, norm, lookup, app, env, catalog, scenes, start_id_var, pause_event,
                   skip_organized_var, url_labels, checkbox_vars, afterQ,
                   uiBlocked>>

\* US: the << Backward button only shows a message.
US_ClickBackward ==
    /\ app = "US" /\ ~uiBlocked
    /\ UNCHANGED vars

\* US: toggle_pause, the Pause / Resume button.
US_TogglePause ==
    /\ app = "US" /\ ~uiBlocked
    /\ pause_event' = ~pause_event
    /\ worker' = ResetSincePause(worker)
    /\ UNCHANGED <<accepted_urls, hist, norm, lookup, app, env, catalog, scenes, start_id_var, loading_paused,
                   skip_organized_var, load_button, url_labels,
                   checkbox_vars, afterQ, uiBlocked>>

\* US: the Skip Organized Scenes checkbox, set before the first thread of
\* the run is started.
US_ToggleSkipOrganized ==
    /\ app = "US" /\ ~uiBlocked
    /\ FreeSlots = Threads
    /\ skip_organized_var' = ~skip_organized_var
    /\ UNCHANGED <<accepted_urls, hist, norm, lookup, app, env, catalog, scenes, start_id_var, pause_event,
                   loading_paused, load_button, url_labels, checkbox_vars,
                   worker, afterQ, uiBlocked>>

\* FH: the Play button: forward_block calls load_scenes.
FH_ClickPlay ==
    /\ app = "FH"
    /\ load_scenes
    /\ UNCHANGED <<accepted_urls, hist, norm, lookup, app, env, catalog, scenes, start_id_var, pause_event,
                   skip_organized_var, url_labels, checkbox_vars, afterQ,
                   uiBlocked>>

\* FH: pause_loading, the Pause button.
FH_ClickPause ==
    /\ app = "FH"
    /\ loading_paused' = TRUE
    /\ worker' = IF loading_paused THEN worker ELSE ResetSincePause(worker)
    /\ UNCHANGED <<accepted_urls, hist, norm, lookup, app, env, catalog, scenes, start_id_var, pause_event,
                   skip_organized_var, load_button, url_labels,
                   checkbox_vars, afterQ, uiBlocked>>

\* FH: backward_block.  No widget of FH is bound to this handler; it is
\* modelled as an operation of the program that its caller may invoke.
FH_BackwardBlock ==
    /\ app = "FH"
    /\ FreeSlots # {}
    /\ loading_paused' = FALSE
    /\ worker' = StartThread(IF loading_paused THEN ResetSincePause(worker)
                             ELSE worker, NewScan("backward"))
    /\ UNCHANGED <<accepted_urls, hist, norm, lookup, app, env, catalog, scenes, start_id_var, pause_event,
                   skip_organized_var, load_button, url_labels,
                   checkbox_vars, afterQ, uiBlocked>>

\* accept_candidates: start an update pass.
ClickAccept ==
    /\ ~uiBlocked
    /\ FreeSlots # {}
    /\ worker' = StartThread(worker, NewUpdate)
    /\ UNCHANGED <<accepted_urls, hist, norm, lookup, app, env, catalog, scenes, start_id_var, pause_event,
                   loading_paused, skip_organized_var, load_button,
                   url_labels, checkbox_vars, afterQ, uiBlocked>>

\* refresh_candidates: fill the rows again.
ClickRefresh ==
    /\ ~uiBlocked
    /\ scenes # <<>>
    /\ \E rows \in {Rows(app, scenes, url_labels, checkbox_vars,
                           ~pause_event, env.db)} :
           /\ url_labels' = rows.labels
           /\ checkbox_vars' = rows.checks
           /\ uiBlocked' = rows.blocked
    /\ UNCHANGED <<accepted_urls, hist, norm, lookup, app, env, catalog, scenes, start_id_var, pause_event,
                   loading_paused, skip_organized_var, load_button, worker,
                   afterQ>>

\* The user types a start id, while no worker thread runs.
EditStartId ==
    /\ ~uiBlocked
    /\ \A t \in Threads : ~Active(t)
    /\ \E text \in StartIdInputs : start_id_var' = text
    /\ UNCHANGED <<accepted_urls, hist, norm, lookup, app, env, catalog, scenes, pause_event, loading_paused,
                   skip_organized_var, load_button, url_labels,
                   checkbox_vars, worker, afterQ, uiBlocked>>

(***************************************************************************)
(* Specification                                                           *)
(***************************************************************************)
WorkerStep(t) ==
    \/ US_ScanSetup(t)
    \/ US_ScanWait(t)
    \/ US_ScanStep(t)
    \/ US_ScanSleep(t)
    \/ FH_ScanSetup(t)
    \/ FH_ScanStep(t)
    \/ FH_BackwardSetup(t)
    \/ FH_BackwardGate(t)
    \/ FH_BackwardStep(t)
    \/ US_UpdateWait(t)
    \/ US_UpdateBody(t)
    \/ FH_UpdateBody(t)

AfterStep ==
    \/ AfterEnableLoad
    \/ AfterFinish
    \/ AfterLoadScenes
    \/ AfterMessage

UserStep ==
    \/ US_ClickLoadScenes
    \/ US_ClickForward
    \/ US_ClickBackward
    \/ US_TogglePause
    \/ US_ToggleSkipOrganized
    \/ FH_ClickPlay
    \/ FH_ClickPause
    \/ FH_BackwardBlock
    \/ ClickAccept
    \/ ClickRefresh
    \/ EditStartId

Next ==
    \/ \E t \in Threads : WorkerStep(t)
    \/ AfterStep
    \/ UserStep

Spec == Init /\ [][Next]_vars

(***************************************************************************)
(* One forward scan alone: the runs of Spec in which the user types a      *)
(* start id, starts one forward scan, pauses and resumes, and does nothing *)
(* else.  The operating system schedules the thread whenever it can run    *)
(* and the Tk main loop runs every callback it was handed; the user owes   *)
(* nothing.                                                                *)
(***************************************************************************)
ForwardStep(t) ==
    \/ US_ScanSetup(t)
    \/ US_ScanWait(t)
    \/ US_ScanStep(t)
    \/ US_ScanSleep(t)
    \/ FH_ScanSetup(t)
    \/ FH_ScanStep(t)

ForwardAfterStep ==
    \/ AfterEnableLoad
    \/ AfterFinish

StartFirstScan ==
    /\ FreeSlots = Threads
    /\ \/ US_ClickLoadScenes
       \/ FH_ClickPlay

ForwardUserStep ==
    \/ StartFirstScan
    \/ US_TogglePause
    \/ FH_ClickPause
    \/ EditStartId

ForwardNext ==
    \/ \E t \in Threads : ForwardStep(t)
    \/ ForwardAfterStep
    \/ ForwardUserStep

ForwardFairSpec ==
    /\ Init
    /\ [][ForwardNext]_vars
    /\ \A t \in Threads : WF_vars(ForwardStep(t))
    /\ WF_vars(ForwardAfterStep)

(***************************************************************************)
(* One forward scan over the catalog of file names.                        *)
(***************************************************************************)
KeyInit ==
    /\ app \in {"US", "FH"}
    /\ env = [find_fails |-> {}, update_fails |-> {}, db |-> HistoryPresent]
    /\ catalog = KeyCatalog
    /\ scenes = <<>>
    /\ start_id_var = "1"
    /\ pause_event = TRUE
    /\ loading_paused = FALSE
    /\ skip_organized_var = TRUE
    /\ load_button = "normal"
    /\ url_labels = [i \in 1..TARGET_SCENE_COUNT |-> ""]
    /\ checkbox_vars = [i \in 1..TARGET_SCENE_COUNT |-> TRUE]
    /\ worker = [t \in Threads |-> IdleWorker]
    /\ afterQ = <<>>
    /\ uiBlocked = FALSE
    /\ lookup = NoLookup
    /\ norm = NoNorm
    /\ hist = NoHist
    /\ accepted_urls = <<>>

KeySpec == KeyInit /\ [][ForwardNext]_vars

(***************************************************************************)
(* Scans and update passes one after the other: the runs in which the user *)
(* starts a forward scan for a first batch and clicks Accept Candidates on *)
(* a batch while no thread runs.  The slot of a thread whose function has returned is taken *)
(* by the next thread.                                                     *)
(***************************************************************************)
\* The thread function has returned and the thread is gone.
ReleaseSlot(t) ==
    /\ worker[t].kind = "done"
    /\ worker' = [worker EXCEPT ![t] = IdleWorker]
    /\ UNCHANGED <<accepted_urls, hist, norm, lookup, app, env, catalog, scenes, start_id_var,
                   pause_event, loading_paused, skip_organized_var,
                   load_button, url_labels, checkbox_vars, afterQ, uiBlocked>>

ApplyStep(t) ==
    \/ US_ScanSetup(t)
    \/ US_ScanWait(t)
    \/ US_ScanStep(t)
    \/ US_ScanSleep(t)
    \/ FH_ScanSetup(t)
    \/ FH_ScanStep(t)
    \/ US_UpdateWait(t)
    \/ US_UpdateBody(t)
    \/ FH_UpdateBody(t)
    \/ ReleaseSlot(t)

\* Callbacks that wait for the main thread when the user clicks.
MaxCallbacks == 2

\* The user clicks Accept Candidates on a batch, while no thread runs and
\* fewer than MaxCallbacks callbacks wait.
AcceptBatch ==
    /\ scenes # <<>>
    /\ \A t \in Threads : worker[t].kind \in {"free", "done"}
    /\ Len(afterQ) < MaxCallbacks
    /\ ClickAccept

\* The user starts a forward scan while there is no batch, no thread and
\* no callback.
StartBatchScan ==
    /\ scenes = <<>>
    /\ afterQ = <<>>
    /\ StartFirstScan

ApplyUserStep ==
    \/ StartBatchScan
    \/ AcceptBatch

ApplyNext ==
    \/ \E t \in Threads : ApplyStep(t)
    \/ AfterStep
    \/ ApplyUserStep

ApplySpec == Init /\ [][ApplyNext]_vars

(***************************************************************************)
(* Scans, update passes, Refresh Candidates and a change of the History    *)
(* Store: the runs of ApplySpec in which, besides, the user clicks Refresh  *)
(* Candidates and the history file is replaced by another one.             *)
(***************************************************************************)
\* The database file the lookups open is replaced: browserHistory.db by a
\* save of the Copy Places popup, places.sqlite by a new copy.
HistoryStoreChanges ==
    /\ env.db = HistoryPresent
    /\ env' = [env EXCEPT !.db = HistoryReplaced]
    /\ UNCHANGED <<accepted_urls, hist, norm, lookup, app, catalog, scenes,
                   start_id_var, pause_event, loading_paused,
                   skip_organized_var, load_button, url_labels,
                   checkbox_vars, worker, afterQ, uiBlocked>>

\* The user clicks Refresh Candidates while no thread runs.
RefreshBatch ==
    /\ \A t \in Threads : worker[t].kind \in {"free", "done"}
    /\ ClickRefresh

RedisplayNext ==
    \/ ApplyNext
    \/ RefreshBatch
    \/ HistoryStoreChanges

RedisplaySpec == Init /\ [][RedisplayNext]_vars

(***************************************************************************)
(* The Normalizers alone: one text is put through one of the Normalizers   *)
(* of the two programs, and the result is put through it again.  The text  *)
(* is a stem of up to MaxStem characters, letters of both cases, a digit,  *)
(* '-', '.', a blank or '_', followed by two endings.                      *)
(***************************************************************************)
\* Characters of a stem.
MaxStem == 2
NormAlphabet == {"a", "Z", "7", "-", ".", " ", "_"}
NormEndings == {"", ".mp4", ".Mp4", "-01", "-7", "-012", "mp4"}

RECURSIVE Stems(_)
Stems(n) ==
    IF n = 0 THEN {""}
    ELSE Stems(n - 1) \cup {s \o c : s \in Stems(n - 1), c \in NormAlphabet}

NormInputs == {s \o p \o q : s \in Stems(MaxStem), p \in NormEndings,
                              q \in NormEndings}

\* The Normalizers: clean_filename and sanitize_for_windows of
\* urlstashgui.py, sanitize_for_windows of FirefoxHistory_stashGUI.py and
\* the clean_base of its get_firefox_urls.
NormPolicies == {"clean_filename", "sanitize_US", "sanitize_FH", "clean_base_FH"}
Normalize(policy, text) ==
    CASE policy = "clean_filename" -> clean_filename(text)
      [] policy = "sanitize_US" -> sanitize_for_windows_US(text)
      [] policy = "sanitize_FH" -> sanitize_for_windows_FH(text)
      [] OTHER -> CleanBase_FH(text)

NormInit ==
    /\ app \in {"US", "FH"}
    /\ env = [find_fails |-> {}, update_fails |-> {}, db |-> HistoryMissing]
    /\ catalog = EmptyCatalog
    /\ scenes = <<>>
    /\ start_id_var = "1"
    /\ pause_event = TRUE
    /\ loading_paused = FALSE
    /\ skip_organized_var = TRUE
    /\ load_button = "normal"
    /\ url_labels = [i \in 1..TARGET_SCENE_COUNT |-> ""]
    /\ checkbox_vars = [i \in 1..TARGET_SCENE_COUNT |-> TRUE]
    /\ worker = [t \in Threads |-> IdleWorker]
    /\ afterQ = <<>>
    /\ uiBlocked = FALSE
    /\ lookup = NoLookup
    /\ \E policy \in NormPolicies, text \in NormInputs :
          /\ (app = "US") = (policy \in {"clean_filename", "sanitize_US"})
          /\ norm = [NoNorm EXCEPT !.stage = "text", !.policy = policy,
                                   !.input = text]
    /\ hist = NoHist
    /\ accepted_urls = <<>>

\* The text is normalized.
Normalize_Once ==
    /\ norm.stage = "text"
    /\ norm' = [norm EXCEPT !.stage = "once",
                            !.output = Normalize(norm.policy, norm.input)]
    /\ UNCHANGED <<accepted_urls, hist, lookup, app, env, catalog, scenes, start_id_var,
                   pause_event, loading_paused, skip_organized_var,
                   load_button, url_labels, checkbox_vars, worker, afterQ,
                   uiBlocked>>

\* The result is normalized again.
Normalize_Again ==
    /\ norm.stage = "once"
    /\ norm' = [norm EXCEPT !.stage = "twice",
                            !.again = Normalize(norm.policy, norm.output)]
    /\ UNCHANGED <<accepted_urls, hist, lookup, app, env, catalog, scenes, start_id_var,
                   pause_event, loading_paused, skip_organized_var,
                   load_button, url_labels, checkbox_vars, worker, afterQ,
                   uiBlocked>>

NormalizerNext ==
    \/ Normalize_Once
    \/ Normalize_Again

NormalizerSpec == NormInit /\ [][NormalizerNext]_vars

(***************************************************************************)
(* US: the Copy Places popup alone: history files are selected and saved   *)
(* into browserHistory.db.  A file holds up to MaxTemp rows, or no table   *)
(* with a url and a title column.                                          *)
(***************************************************************************)
\* Rows of a selected history file, and saves in a run.
MaxTemp == 2
MaxSaves == 2

SourceRows ==
    { [url |-> u, title |-> t] : u \in {"http://a", "http://b"},
                                 t \in {"t1", "t2"} }
SourceFiles ==
    {[valid |-> FALSE, rows |-> <<>>]} \cup
    UNION { { [valid |-> TRUE, rows |-> r] : r \in [1..n -> SourceRows] }
            : n \in 0..MaxTemp }

\* A remove_duplicates that keeps the last row of each url.
RemoveDuplicates_KeepLast(table) ==
    LET Kept(row) == \A k \in 1..Len(table) :
                        table[k].url = row.url => table[k].id <= row.id
    IN  SelectSeq(table, Kept)

\* A remove_duplicates that deletes every row of a url that is there
\* more than once.
RemoveDuplicates_DropAll(table) ==
    LET Kept(row) == \A k \in 1..Len(table) :
                        table[k].url = row.url => table[k].id = row.id
    IN  SelectSeq(table, Kept)

\* remove_duplicates: DELETE FROM browser_hist WHERE ROWID NOT IN
\* (SELECT MIN(ROWID) FROM browser_hist GROUP BY url).
RemoveDuplicates(table) ==
    LET Kept(row) == \A k \in 1..Len(table) :
                        table[k].url = row.url => table[k].id >= row.id
    IN  SelectSeq(table, Kept)

\* append_to_browser_history_db: one INSERT per row of the source table,
\* in its order, each with the next id of the AUTOINCREMENT key.
AppendRows(table, seq, rows) ==
    table \o [k \in 1..Len(rows) |->
                 [id |-> seq + k, url |-> rows[k].url, title |-> rows[k].title]]

\* The history files of the runs that clean the store: rows of a url on
\* either of the two domains clean_urls knows, one of them without a title
\* too, and of a url of the default filter.
CleanRows ==
    { [url |-> "spankbang.party/v", title |-> "t1"],
      [url |-> "spankbang.com/v", title |-> "t1"],
      [url |-> "spankbang.com/w", title |-> ""],
      [url |-> "localhost/a", title |-> "t1"] }
CleanFiles ==
    UNION { { [valid |-> TRUE, rows |-> r] : r \in [1..n -> CleanRows] }
            : n \in 1..MaxTemp }

\* select_history: the chosen file is copied to temp_browserHistory.db and
\* load_tables looks for a table with url and title.
SelectFrom(files) ==
    /\ app = "US"
    /\ \E file \in files :
          hist' = [hist EXCEPT !.temp = file.rows,
                               !.valid = file.valid,
                               !.db_loaded = @ \/ file.valid,
                               !.temp_exists = TRUE,
                               !.last_op = "select"]
    /\ UNCHANGED <<accepted_urls, norm, lookup, app, env, catalog, scenes, start_id_var,
                   pause_event, loading_paused, skip_organized_var,
                   load_button, url_labels, checkbox_vars, worker, afterQ,
                   uiBlocked>>

SelectHistory == SelectFrom(SourceFiles)
SelectStoredHistory == SelectFrom(CleanFiles)

\* The rows save_history reads: append_to_browser_history_db returns at
\* once when temp_browserHistory.db is not there.
SaveSource(h) == IF h.temp_exists THEN h.temp ELSE <<>>

\* REPLACE(text, from, to) of SQLite: every occurrence, left to right.
RECURSIVE Replace(_, _, _)
Replace(text, from, to) ==
    IF Len(text) < Len(from) THEN text
    ELSE IF SubSeq(text, 1, Len(from)) = from
    THEN to \o Replace(SubSeq(text, Len(from) + 1, Len(text)), from, to)
    ELSE SubSeq(text, 1, 1) \o Replace(SubSeq(text, 2, Len(text)), from, to)

\* The lines of the filter box as the popup fills it.
DefaultFilters == <<"google.com", "dinotube.com", "localhost">>

\* clean_urls on the table: the rows without a title go, then the rows
\* whose url holds a line of the filter box, then the urls of the rows
\* left are rewritten from spankbang.party to spankbang.com.
CleanTable(table) ==
    LET Titled(row) == row.title # ""
        Unfiltered(row) ==
            \A k \in 1..Len(DefaultFilters) : ~Like(row.url, DefaultFilters[k])
        left == SelectSeq(SelectSeq(table, Titled), Unfiltered)
    IN  [k \in 1..Len(left) |->
            [left[k] EXCEPT !.url = Replace(@, "spankbang.party", "spankbang.com")]]

\* clean_urls with the button enabled: the table is cleaned,
\* temp_browserHistory.db is removed, the database is vacuumed.
CleanUrls ==
    /\ app = "US"
    /\ hist.clean_button = "normal"
    /\ hist' = [hist EXCEPT !.browser_hist = CleanTable(@),
                            !.temp_exists = FALSE,
                            !.last_op = "clean",
                            !.saved = NoSaved]
    /\ UNCHANGED <<accepted_urls, norm, lookup, app, env, catalog, scenes, start_id_var,
                   pause_event, loading_paused, skip_organized_var,
                   load_button, url_labels, checkbox_vars, worker, afterQ,
                   uiBlocked>>


\* save_history with a file loaded and a valid table in it: the rows are
\* appended, remove_duplicates runs, the database is vacuumed.
SaveHistory ==
    /\ app = "US"
    /\ hist.db_loaded /\ hist.valid
    /\ hist.saves < MaxSaves
    /\ \E source \in {SaveSource(hist)} :
       \E appended \in {AppendRows(hist.browser_hist, hist.seq, source)} :
          hist' = [hist EXCEPT !.browser_hist = RemoveDuplicates(appended),
                               !.seq = @ + Len(source),
                               !.appended = appended,
                               !.saves = @ + 1,
                               !.clean_button = "normal",
                               !.last_op = "save",
                               !.saved = [some |-> TRUE, rows |-> source]]
    /\ UNCHANGED <<accepted_urls, norm, lookup, app, env, catalog, scenes, start_id_var,
                   pause_event, loading_paused, skip_organized_var,
                   load_button, url_labels, checkbox_vars, worker, afterQ,
                   uiBlocked>>

HistoryNext ==
    \/ SelectHistory
    \/ SaveHistory

HistoryInit ==
    /\ app = "US"
    /\ env = [find_fails |-> {}, update_fails |-> {}, db |-> HistoryMissing]
    /\ catalog = EmptyCatalog
    /\ scenes = <<>>
    /\ start_id_var = "1"
    /\ pause_event = TRUE
    /\ loading_paused = FALSE
    /\ skip_organized_var = TRUE
    /\ load_button = "normal"
    /\ url_labels = [i \in 1..TARGET_SCENE_COUNT |-> ""]
    /\ checkbox_vars = [i \in 1..TARGET_SCENE_COUNT |-> TRUE]
    /\ worker = [t \in Threads |-> IdleWorker]
    /\ afterQ = <<>>
    /\ uiBlocked = FALSE
    /\ lookup = NoLookup
    /\ norm = NoNorm
    /\ hist = NoHist
    /\ accepted_urls = <<>>

HistorySpec == HistoryInit /\ [][HistoryNext]_vars

\* The popup with Clean URLs: histories are selected, saved and cleaned.
CleanNext ==
    \/ SelectStoredHistory
    \/ SaveHistory
    \/ CleanUrls

CleanSpec == HistoryInit /\ [][CleanNext]_vars

(***************************************************************************)
(* Backward scans alone (FH): the runs in which the start id is typed, the *)
(* backward handler is invoked and Pause is clicked, and nothing else is   *)
(* done.  The operating system schedules a thread whenever it can run.     *)
(***************************************************************************)
BackwardStep(t) ==
    \/ FH_BackwardSetup(t)
    \/ FH_BackwardGate(t)
    \/ FH_BackwardStep(t)

BackwardUserStep ==
    \/ FH_BackwardBlock
    \/ FH_ClickPause
    \/ EditStartId

BackwardNext ==
    \/ \E t \in Threads : BackwardStep(t)
    \/ AfterFinish
    \/ BackwardUserStep

BackwardFairSpec ==
    /\ Init
    /\ [][BackwardNext]_vars
    /\ \A t \in Threads : WF_vars(BackwardStep(t))

(***************************************************************************)
(* One lookup alone: get_firefox_urls(base_filename) against a History     *)
(* Store, followed through its three steps: the query, the post-filter and *)
(* the choice of the candidate.  The store holds up to MaxRows of the rows *)
(* of HistoryRows in any order, or is missing.                             *)
(***************************************************************************)
\* Rows in the History Store of a lookup.
MaxRows == 3

\* The stores of the lookups: every sequence of up to MaxRows different
\* rows of HistoryRows, and the store that fails.
MatcherStores ==
    {HistoryMissing} \cup
    UNION { { [ok |-> TRUE, rows |-> [i \in 1..n |-> HistoryRows[f[i]]]]
                : f \in { g \in [1..n -> 1..Len(HistoryRows)] :
                             \A i, j \in 1..n : i # j => g[i] # g[j] } }
            : n \in 0..MaxRows }

\* The file names of the lookups: those of the catalogs, and one whose key
\* is empty.
MatcherNames == LookupNames \cup {"-01"}

\* clean_base of the program that runs.
CleanBase(a, base_filename) ==
    IF a = "US" THEN clean_filename(base_filename)
    ELSE CleanBase_FH(base_filename)

MatcherInit ==
    /\ app \in {"US", "FH"}
    /\ \E d \in MatcherStores :
          env = [find_fails |-> {}, update_fails |-> {}, db |-> d]
    /\ catalog = EmptyCatalog
    /\ scenes = <<>>
    /\ start_id_var = "1"
    /\ pause_event = TRUE
    /\ loading_paused = FALSE
    /\ skip_organized_var = TRUE
    /\ load_button = "normal"
    /\ url_labels = [i \in 1..TARGET_SCENE_COUNT |-> ""]
    /\ checkbox_vars = [i \in 1..TARGET_SCENE_COUNT |-> TRUE]
    /\ worker = [t \in Threads |-> IdleWorker]
    /\ afterQ = <<>>
    /\ uiBlocked = FALSE
    /\ \E n \in MatcherNames :
          lookup = [NoLookup EXCEPT !.stage = "called", !.base_filename = n]
    /\ norm = NoNorm
    /\ hist = NoHist
    /\ accepted_urls = <<>>

\* sqlite3.connect, cursor.execute and fetchall: the rows of the query, or
\* the return of one of the except blocks.
Lookup_Query ==
    /\ lookup.stage = "called"
    /\ IF ~env.db.ok
       THEN lookup' = [lookup EXCEPT !.stage = "returned",
                                     !.returned = OnStoreFailure(env.db)]
       ELSE \E clean_base \in {CleanBase(app, lookup.base_filename)} :
              lookup' = [lookup EXCEPT
                  !.stage = "queried",
                  !.results = IF app = "US" THEN Results_US(clean_base, env.db)
                              ELSE Results_FH(clean_base, env.db)]
    /\ UNCHANGED <<accepted_urls, hist, norm, app, env, catalog, scenes, start_id_var, pause_event,
                   loading_paused, skip_organized_var, load_button,
                   url_labels, checkbox_vars, worker, afterQ, uiBlocked>>

\* filtered = [... for (t, u) in results if ...]
Lookup_Filter ==
    /\ lookup.stage = "queried"
    /\ lookup' = [lookup EXCEPT !.stage = "filtered",
                                !.filtered = Filtered(lookup.results)]
    /\ UNCHANGED <<accepted_urls, hist, norm, app, env, catalog, scenes, start_id_var, pause_event,
                   loading_paused, skip_organized_var, load_button,
                   url_labels, checkbox_vars, worker, afterQ, uiBlocked>>

\* The loop over filtered and the return.
Lookup_Select ==
    /\ lookup.stage = "filtered"
    /\ \E clean_base \in {CleanBase(app, lookup.base_filename)} :
          lookup' = [lookup EXCEPT
              !.stage = "returned",
              !.returned = IF app = "US"
                           THEN FirstPrefixMatch(clean_base, lookup.filtered)
                           ELSE BestCandidate(clean_base, lookup.filtered)]
    /\ UNCHANGED <<accepted_urls, hist, norm, app, env, catalog, scenes, start_id_var, pause_event,
                   loading_paused, skip_organized_var, load_button,
                   url_labels, checkbox_vars, worker, afterQ, uiBlocked>>

MatcherNext ==
    \/ Lookup_Query
    \/ Lookup_Filter
    \/ Lookup_Select

MatcherSpec == MatcherInit /\ [][MatcherNext]_vars

(***************************************************************************)
(* Properties                                                              *)
(***************************************************************************)
\* The finish callbacks that wait in the queue of the main thread.
FinishCallbacks == {k \in 1..Len(afterQ) : afterQ[k].op = "finish"}
ScanWorkers == {t \in Threads : worker[t].kind = "scan"}

\* The batch a scan thread holds after a step: its valid_scenes, or the
\* batch of the finish callback it posted in the step that ended it.
CollectedAfter(t) ==
    IF /\ worker[t].kind = "scan" /\ worker'[t].kind = "done"
       /\ Len(afterQ') = Len(afterQ) + 1
       /\ afterQ'[Len(afterQ')].op = "finish"
    THEN afterQ'[Len(afterQ')].valid_scenes
    ELSE worker'[t].valid_scenes

\* C5: in every reachable state of a scan the batch it has collected holds
\* at most TARGET_SCENE_COUNT (10) scenes, the batch it hands over too, and
\* one step of a scan adds at most one scene to it.
C5_BatchBounded ==
    /\ [](/\ \A t \in Threads :
                Len(worker[t].valid_scenes) <= TARGET_SCENE_COUNT
          /\ \A k \in FinishCallbacks :
                Len(afterQ[k].valid_scenes) <= TARGET_SCENE_COUNT
          /\ Len(scenes) <= TARGET_SCENE_COUNT)
    /\ [][\A t \in ScanWorkers :
             Len(CollectedAfter(t)) <= Len(worker[t].valid_scenes) + 1]_vars

\* C5 witness: a scan has handed over a batch of exactly ten scenes.
C5_Witness ==
    \E k \in FinishCallbacks :
        Len(afterQ[k].valid_scenes) = TARGET_SCENE_COUNT

\* The candidate url of a collected scene is none of the urls the scene
\* had when the scan requested it.
CandidateIsNew(scene) ==
    /\ scene.files # <<>>
    /\ \E cands \in {get_firefox_urls(app, BaseFilename(scene), env.db)} :
          /\ cands # <<>>
          /\ \A k \in 1..Len(scene.urls) : scene.urls[k].url # cands[1].url

\* C6: no scene is in a batch, being collected or handed over, when the
\* candidate url selected for it is among the scene's urls, be the url
\* stored as a bare string or as a {url} object.
C6_NoDuplicateCollected ==
    /\ \A t \in Threads :
          \A k \in 1..Len(worker[t].valid_scenes) :
              CandidateIsNew(worker[t].valid_scenes[k])
    /\ \A c \in FinishCallbacks :
          \A k \in 1..Len(afterQ[c].valid_scenes) :
              CandidateIsNew(afterQ[c].valid_scenes[k])

\* C6 witness: a forward scan has been handed scene 6 (its candidate url
\* stored as a bare string) and scene 7 (stored as a {url} object), has
\* collected neither and has collected scene 8, whose urls do not hold its
\* candidate.
C6_Witness ==
    \E t \in Threads :
        /\ worker[t].kind = "scan" /\ worker[t].dir = "forward"
        /\ worker[t].last_requested = 8
        /\ \E k \in 1..Len(catalog[6].urls) :
              catalog[6].urls[k] = UrlStr(BeachUrl)
        /\ \E k \in 1..Len(catalog[7].urls) :
              catalog[7].urls[k] = UrlDict(BeachUrl)
        /\ \E k \in 1..Len(worker[t].valid_scenes) :
              worker[t].valid_scenes[k].id = 8
        /\ \A k \in 1..Len(worker[t].valid_scenes) :
              worker[t].valid_scenes[k].id \notin {6, 7}

\* The forward scans whose cursor has passed the last existing scene id.
PastLastId(t) ==
    /\ worker[t].kind = "scan" /\ worker[t].dir = "forward"
    /\ worker[t].pc \in {"wait", "find", "sleep"}
    /\ worker[t].sid > LastSceneId(catalog)

\* C1: every forward scan terminates: once its cursor has passed the last
\* existing scene id the scan hands over its batch (its thread is over
\* and has posted the finish callback), unless the user holds it paused.
C1_ForwardScanTerminates ==
    \A t \in Threads :
        PastLastId(t) ~> (worker[t].kind = "done" \/ Paused)

\* C2: in every reachable state at most one scan worker is active and at
\* most one update pass is active.
C2_OneScanOneUpdate ==
    /\ Cardinality({t \in Threads : Active(t) /\ worker[t].kind = "scan"}) <= 1
    /\ Cardinality({t \in Threads : Active(t) /\ worker[t].kind = "update"}) <= 1

\* C3: after pause is requested during a scan at most the step in flight
\* completes: until resume is requested the scan issues at most one
\* find_scene request.
C3_PauseStopsRequests ==
    \A t \in Threads : worker[t].since_pause <= 1

\* C4: resume continues the paused scan: a step that ends the pause while a
\* scan is active starts no thread and leaves every scan where it is.
C4_ResumeContinuesScan ==
    [][(/\ Paused /\ ~Paused'
        /\ \E t \in Threads : Active(t) /\ worker[t].kind = "scan")
       => \A t \in Threads :
             /\ worker'[t].kind = worker[t].kind
             /\ worker'[t].sid = worker[t].sid
             /\ worker'[t].valid_scenes = worker[t].valid_scenes]_vars

\* C7: each step of a scan that requests a scene requests the cursor id and
\* leaves the cursor exactly one further in the direction of the scan,
\* whatever the outcome of the request.  (Cursor values from MaxSid on are
\* folded by the model; the step that ends a scan hands the cursor to
\* the finish callback.)
C7_CursorMovesByOne ==
    [][\A t \in Threads :
          (/\ worker[t].kind = "scan" /\ worker[t].pc = "find"
           /\ worker'[t].kind = "scan"
           /\ worker'[t].last_requested # worker[t].last_requested
           /\ worker[t].sid < MaxSid)
          => /\ worker'[t].last_requested = worker[t].sid
             /\ worker'[t].sid = IF worker[t].dir = "forward"
                                 THEN worker[t].sid + 1
                                 ELSE worker[t].sid - 1]_vars

\* The finish callbacks of the scans that requested a scene, all below
\* MaxSid (cursor values from MaxSid on are folded by the model).
BatchesReady ==
    {k \in FinishCallbacks : afterQ[k].last_requested \in 0..(MaxSid - 1)}

\* C8 as stated: the next start id a scan hands over is the id immediately
\* after (forward) or immediately before (backward) the last id the scan
\* requested.
C8_NextCursorAdjacent ==
    \A k \in BatchesReady :
            afterQ[k].next_start =
                IF afterQ[k].dir = "forward"
                THEN afterQ[k].last_requested + 1
                ELSE afterQ[k].last_requested - 1

\* C8 amended: the next start id a scan hands over is the id immediately
\* after the last id it requested (forward) or immediately before it
\* (backward), except that a backward scan never hands over an id below 1:
\* after requesting id 1 it hands over 1.
C8_NextCursorAdjacentOrFloor ==
    \A k \in BatchesReady :
        LET cb == afterQ[k]
        IN  IF cb.dir = "forward"
            THEN cb.next_start = cb.last_requested + 1
            ELSE IF cb.last_requested > 1
            THEN cb.next_start = cb.last_requested - 1
            ELSE cb.next_start = 1

\* C8 witness: a backward scan whose last request was id 1 has handed over
\* the next start id 1.
C8_Witness ==
    \E k \in BatchesReady :
        /\ afterQ[k].dir = "backward"
        /\ afterQ[k].last_requested = 1
        /\ afterQ[k].next_start = 1

\* C9: a find_scene that raises or finds nothing does not end the scan: no
\* scan thread is ended by the request for a scene or by what follows a
\* scene that was not found.
C9_FailedRequestIsSkipped ==
    \A t \in Threads : worker[t].exit \notin {"find_scene", "max_id"}

\* C10: a scan whose start id is malformed or whose connection fails
\* returns before its loop: it has requested no scene, the batch delivered
\* before and the start id are what they were, no batch is handed over, the
\* thread is over and, in US, the Load Scenes button is handed back.
C10_SetupAbort ==
    [][\A t \in Threads :
          (/\ worker[t].kind = "scan" /\ worker[t].pc = "setup"
           /\ worker'[t].pc # "setup")
          => /\ ~ParseInt(start_id_var).ok => worker'[t].exit # "none"
             /\ worker'[t].exit # "none" =>
                   /\ worker'[t].kind = "done"
                   /\ worker'[t].last_requested = -1
                   /\ scenes' = scenes
                   /\ start_id_var' = start_id_var
                   /\ FinishCallbacks' = FinishCallbacks
                   /\ app = "US" =>
                         /\ Len(afterQ') = Len(afterQ) + 1
                         /\ afterQ'[Len(afterQ')].op = "enable_load"]_vars

\* C10 witness: with a batch delivered and the start id "abc", a scan has
\* returned from the except block of the start id.
C10_Witness ==
    /\ scenes # <<>>
    /\ start_id_var = "abc"
    /\ \E t \in Threads : worker[t].exit = "start_id"

\* The key of a title and the key of a scene's base filename, by the
\* Normalizer of the program that runs.
NormalizedTitle(a, title) ==
    IF a = "US" THEN sanitize_for_windows_US(title) ELSE Sanitized_FH(title)
NormalizedBase(a, base_filename) ==
    IF a = "US" THEN clean_filename(base_filename)
    ELSE Sanitized_FH(base_filename)

\* The lookup for a file name returns a candidate whose normalized title
\* starts with the normalized file name.
PrefixCandidate(a, base_filename, db) ==
    \E cands \in {get_firefox_urls(a, base_filename, db)} :
        /\ cands # <<>>
        /\ StartsWith(NormalizedTitle(a, cands[1].title),
                      NormalizedBase(a, base_filename))
PrefixCandidateNames ==
    { x \in {"US", "FH"} \X LookupNames :
        PrefixCandidate(x[1], x[2], HistoryPresent) }
HasPrefixCandidate(scene) ==
    /\ scene.files # <<>>
    /\ IF env.db = HistoryPresent /\ BaseFilename(scene) \in LookupNames
       THEN <<app, BaseFilename(scene)>> \in PrefixCandidateNames
       ELSE PrefixCandidate(app, BaseFilename(scene), env.db)

\* C11: every scene a scan has collected, forward or backward, has a
\* candidate whose normalized title has the scene's normalized base
\* filename as a prefix: a candidate without this prefix relation, even one
\* that reaches the threshold, leaves its scene out of the batch.
C11_CollectedHasPrefixCandidate ==
    /\ \A t \in Threads :
          \A k \in 1..Len(worker[t].valid_scenes) :
              HasPrefixCandidate(worker[t].valid_scenes[k])
    /\ \A c \in FinishCallbacks :
          \A k \in 1..Len(afterQ[c].valid_scenes) :
              HasPrefixCandidate(afterQ[c].valid_scenes[k])

\* A lookup of FH that went through the store and has returned.
ReturnedFH == app = "FH" /\ lookup.stage = "returned" /\ env.db.ok

\* The ratio of a filtered row of the lookup against its key.
RowRatio(row) == Ratio(CleanBase_FH(lookup.base_filename), row.title)

\* C12: FH's lookup returns a candidate if and only if filtered is not
\* empty and the highest ratio in it (1 for a title that starts with the
\* key, 2*M/T otherwise) is at least 9/10: a highest ratio of exactly 9/10
\* returns its row, a lower one returns nothing.  The row returned is a
\* row of filtered with the highest ratio.
C12_ThresholdBoundary ==
    ReturnedFH =>
        LET rows == lookup.filtered
            AtLeastThreshold(r) == 10 * r.num >= 9 * r.den
        IN  /\ lookup.returned # <<>>
                 <=> \E k \in 1..Len(rows) : AtLeastThreshold(RowRatio(rows[k]))
            /\ lookup.returned # <<>> =>
                 /\ \E k \in 1..Len(rows) : rows[k] = lookup.returned[1]
                 /\ \A k \in 1..Len(rows) :
                       RowRatio(rows[k]).num * RowRatio(lookup.returned[1]).den
                         <= RowRatio(lookup.returned[1]).num * RowRatio(rows[k]).den

\* C12 witness: a lookup has returned a row whose ratio, the highest in
\* filtered, is exactly 9/10 and comes from the similarity measure.
C12_Witness ==
    /\ ReturnedFH
    /\ lookup.returned # <<>>
    /\ 10 * RowRatio(lookup.returned[1]).num = 9 * RowRatio(lookup.returned[1]).den
    /\ ~StartsWith(Sanitized_FH(lookup.returned[1].title),
                   CleanBase_FH(lookup.base_filename))
    /\ Len(lookup.filtered) > 1

\* A lookup that went through the store and has returned.
Returned == lookup.stage = "returned" /\ env.db.ok

\* The rows of filtered whose normalized title is the key or starts with it.
KeyIsPrefix(a, key, title) == StartsWith(NormalizedTitle(a, title), key)
PrefixRows(a, key, rows) ==
    {k \in 1..Len(rows) : KeyIsPrefix(a, key, rows[k].title)}

\* C13: a row whose normalized title is the key or starts with it has the
\* ratio 1 exactly (FH, the program that scores), and when filtered holds
\* such a row the lookup returns no row of a lower ratio: the row it
\* returns is such a row too, and FH does return one.
C13_PrefixScoresOne ==
    Returned =>
        \E key \in {CleanBase(app, lookup.base_filename)} :
        \E exact \in {PrefixRows(app, key, lookup.filtered)} :
            /\ app = "FH" =>
                  \A k \in exact :
                      Ratio(key, lookup.filtered[k].title).num
                          = Ratio(key, lookup.filtered[k].title).den
            /\ (exact # {} /\ lookup.returned # <<>>) =>
                  KeyIsPrefix(app, key, lookup.returned[1].title)
            /\ (exact # {} /\ app = "FH") => lookup.returned # <<>>

\* C13 witness: filtered holds a row of a ratio above 0 and below 1 ahead of
\* a row whose title starts with the key, and the lookup has returned the
\* latter.
C13_Witness ==
    /\ ReturnedFH
    /\ Len(lookup.filtered) >= 2
    /\ RowRatio(lookup.filtered[1]).num > 0
    /\ RowRatio(lookup.filtered[1]).num < RowRatio(lookup.filtered[1]).den
    /\ KeyIsPrefix("FH", CleanBase_FH(lookup.base_filename),
                   lookup.filtered[2].title)
    /\ lookup.returned = <<lookup.filtered[2]>>

\* The rows of a store in every order.
Reordered(rows) ==
    { [i \in 1..Len(rows) |-> rows[f[i]]] : f \in Permutations(1..Len(rows)) }

\* The filtered rows and the candidate of the lookup for a key in a store
\* that holds the given rows.
FilteredOf(a, key, rows) ==
    Filtered(IF a = "US" THEN Results_US(key, [ok |-> TRUE, rows |-> rows])
             ELSE Results_FH(key, [ok |-> TRUE, rows |-> rows]))
CandidateOf(a, key, filtered) ==
    IF a = "US" THEN FirstPrefixMatch(key, filtered)
    ELSE BestCandidate(key, filtered)

\* The score of a title: FH's ratio; in US, which only knows the titles
\* that start with the key, 1 for these and 0 for the others.
ScoreOf(a, key, title) ==
    IF a = "FH" THEN Ratio(key, title)
    ELSE IF StartsWith(title, key) THEN ScoreOne ELSE ScoreZero
SameScore(x, y) == x.num * y.den = y.num * x.den

\* The first row of filtered that no row of filtered outscores.
FirstBest(a, key, filtered) ==
    LET Outscores(x, y) == x.num * y.den > y.num * x.den
        Best(k) == \A j \in 1..Len(filtered) :
                       ~Outscores(ScoreOf(a, key, filtered[j].title),
                                  ScoreOf(a, key, filtered[k].title))
    IN  filtered[CHOOSE k \in 1..Len(filtered) :
                    Best(k) /\ \A j \in 1..(k-1) : ~Best(j)]

\* C14 as stated: in whatever order the store holds its rows, the lookup
\* returns the same candidate.
C14_OrderIndependent ==
    Returned =>
        \E key \in {CleanBase(app, lookup.base_filename)} :
            \A rows \in Reordered(env.db.rows) :
                CandidateOf(app, key, FilteredOf(app, key, rows))
                    = lookup.returned

\* C14 amended: in whatever order the store holds its rows, the lookup
\* returns nothing or returns a candidate of the same score; the candidate
\* is the first, in the order of the store, of the rows of that highest
\* score, so that it depends on the order only among rows that tie.
C14_OrderIndependentUpToTies ==
    Returned =>
        \E key \in {CleanBase(app, lookup.base_filename)} :
            \A rows \in Reordered(env.db.rows) :
                \E filtered \in {FilteredOf(app, key, rows)} :
                \E cand \in {CandidateOf(app, key, filtered)} :
                    /\ (cand = <<>>) <=> (lookup.returned = <<>>)
                    /\ cand # <<>> =>
                          /\ SameScore(ScoreOf(app, key, cand[1].title),
                                       ScoreOf(app, key, lookup.returned[1].title))
                          /\ cand[1] = FirstBest(app, key, filtered)

\* C14 witness: filtered holds two rows of the highest score with different
\* urls, and the lookup has returned the first of them.
C14_Witness ==
    /\ Returned
    /\ Len(lookup.filtered) >= 2
    /\ lookup.returned = <<lookup.filtered[1]>>
    /\ lookup.filtered[2].url # lookup.filtered[1].url
    /\ \E key \in {CleanBase(app, lookup.base_filename)} :
          SameScore(ScoreOf(app, key, lookup.filtered[1].title),
                    ScoreOf(app, key, lookup.filtered[2].title))

\* A url holds a denylisted domain, in whatever letter case it is written.
HasDenylistedDomain(url) ==
    \E k \in 1..Len(FILTER_DOMAINS) :
        \E i \in 1..Len(url) :
            /\ i + Len(FILTER_DOMAINS[k]) - 1 <= Len(url)
            /\ Lower(SubSeq(url, i, i + Len(FILTER_DOMAINS[k]) - 1))
                  = FILTER_DOMAINS[k]
\* The urls of the modelled History Store that hold one.
DenylistedUrls ==
    { u \in {HistoryRows[k].url : k \in 1..Len(HistoryRows)} :
        HasDenylistedDomain(u) }
Clean(row) ==
    /\ row.title # ""
    /\ row.url # ""
    /\ row.url \notin DenylistedUrls

\* C15: no row that the query layer hands on (filtered) and no candidate
\* the lookup returns has an empty title, an empty url or a url that holds
\* a denylisted domain, in whatever letter case.
C15_NoDenylistedRecord ==
    /\ \A k \in 1..Len(lookup.filtered) : Clean(lookup.filtered[k])
    /\ \A k \in 1..Len(lookup.returned) : Clean(lookup.returned[k])

\* C15 witness: the query found a row with a denylisted domain in capital
\* letters and a row with an empty title or url; the filter has dropped
\* both and kept a row.
C15_Witness ==
    /\ lookup.stage = "returned"
    /\ \E k \in 1..Len(lookup.results) :
          lookup.results[k].url = "http://LocalHost/beach"
    /\ \E k \in 1..Len(lookup.results) :
          lookup.results[k].title = "" \/ lookup.results[k].url = ""
    /\ Len(lookup.filtered) = 1
    /\ lookup.returned = lookup.filtered

\* C16: with the History Store missing or failing, every lookup returns
\* the empty list; a scan step that examines a scene then collects
\* nothing and leaves the cursor on the next id; it ends the scan only
\* where a backward scan has reached id 1 and hands over its batch.
C16_StoreFailureIsNoCandidate ==
    /\ [](~env.db.ok =>
             \A n \in LookupNames : get_firefox_urls(app, n, env.db) = <<>>)
    /\ [][\A t \in Threads :
             (/\ ~env.db.ok
              /\ worker[t].kind = "scan" /\ worker[t].pc = "find"
              /\ worker'[t].last_requested # worker[t].last_requested
              /\ worker[t].sid < MaxSid)
             => /\ worker'[t].exit = "none"
                /\ CollectedAfter(t) = worker[t].valid_scenes
                /\ \/ /\ worker'[t].kind = "scan"
                      /\ worker'[t].sid = IF worker[t].dir = "forward"
                                          THEN worker[t].sid + 1
                                          ELSE worker[t].sid - 1
                   \/ /\ worker'[t].kind = "done"
                      /\ worker[t].dir = "backward" /\ worker[t].sid = 1
                      /\ Len(afterQ') = Len(afterQ) + 1
                      /\ afterQ'[Len(afterQ')].op = "finish"]_vars

\* C16 witness: with the store missing, a scan has examined scene 1, which
\* has a file and no url, holds an empty batch and goes on with id 2.
C16_Witness ==
    /\ ~env.db.ok
    /\ catalog[1].present /\ catalog[1].files # <<>> /\ catalog[1].urls = <<>>
    /\ \E t \in Threads :
          /\ worker[t].kind = "scan" /\ worker[t].dir = "forward"
          /\ worker[t].last_requested = 1
          /\ worker[t].sid = 2
          /\ worker[t].valid_scenes = <<>>

\* C17: when find_tag or update_scene raises for the scene of a row, the
\* pass goes on with the next row, the scene is not counted as updated
\* and the Catalog Service keeps it as it was; a pass ends only behind the
\* last row of the batch.
C17_FailureDoesNotAbortPass ==
    [][\A t \in Threads :
          /\ (worker[t].kind = "update" /\ worker'[t].failed > worker[t].failed)
             => /\ worker'[t].kind = "update"
                /\ worker'[t].pc \in {"uwait", "ubody"}
                /\ worker'[t].i = worker[t].i + 1
                /\ worker'[t].updated_scenes_count
                      = worker[t].updated_scenes_count
                /\ catalog' = catalog
          /\ (worker[t].kind = "update" /\ worker'[t].kind = "done")
             => \/ worker[t].i >= Len(scenes)
                \/ worker[t].i >= TARGET_SCENE_COUNT - 1]_vars

\* C17 witness: a pass in which the update of one scene raised has updated
\* the scene before it and a scene after it.
C17_Witness ==
    \E t \in Threads :
        /\ worker[t].kind = "update"
        /\ worker[t].failed = 1
        /\ worker[t].updated_scenes_count >= 2
        /\ scenes[2].id \in env.update_fails

\* C18: no update pass sends update_scene for a scene whose urls in the
\* Catalog Service hold the selected url already, as a bare string or in a
\* {url} object, whenever the url came onto the scene.
C18_NoUpdateOfPresentUrl ==
    \A t \in Threads : ~worker[t].stale_update

\* The urls of a scene, as plain strings.
UrlsOf(scene) == [k \in 1..Len(scene.urls) |-> scene.urls[k].url]

\* C19: when a pass has updated the scene of a row, the urls of the scene
\* in the Catalog Service are the urls it had just before, followed by the
\* selected url, and the scene carries the URLHistory tag.
C19_UpdateAppendsUrl ==
    [][\A t \in Threads :
          (/\ worker[t].kind = "update"
           /\ worker'[t].kind = "update"
           /\ worker'[t].updated_scenes_count
                 = worker[t].updated_scenes_count + 1)
          => LET row == worker[t].i + 1
                 id == scenes[row].id
             IN  /\ UrlsOf(catalog'[id])
                       = Append(UrlsOf(catalog[id]), url_labels[row])
                 /\ \E k \in 1..Len(catalog'[id].tag_ids) :
                        catalog'[id].tag_ids[k] = "URLHistory"]_vars

\* The callback shows the user that the pass has updated n scenes: the
\* only callback of a pass that says anything is the message "No URLs
\* were saved."
ReportsCount(cb, n) == cb.op = "msg_skipped" /\ n = 0

\* C20: the step that ends an update pass hands the main thread a callback
\* that reports the number of scenes the pass has updated, zero included.
C20_PassReportsCount ==
    [][\A t \in Threads :
          (worker[t].kind = "update" /\ worker'[t].kind = "done")
          => \E k \in (Len(afterQ) + 1)..Len(afterQ') :
                ReportsCount(afterQ'[k], worker[t].updated_scenes_count)]_vars

\* The backward scans that run.
BackwardScans ==
    {t \in Threads : worker[t].kind = "scan" /\ worker[t].dir = "backward"}

\* The finish callbacks of backward scans.
BackwardBatches == {k \in FinishCallbacks : afterQ[k].dir = "backward"}

\* C21 as stated: a backward scan that is not held at a pause for ever
\* ends; it requests no id below 1; when it hands over a batch that is not
\* full its last request was for id 1; the next start id it hands over is
\* at least 1.
C21_BackwardReachesFloor ==
    /\ (<>[]~loading_paused)
          => \A t \in Threads : (t \in BackwardScans) ~> (t \notin BackwardScans)
    /\ [](\A t \in BackwardScans :
              worker[t].last_requested = -1 \/ worker[t].last_requested >= 1)
    /\ [](\A k \in BackwardBatches :
              /\ afterQ[k].next_start >= 1
              /\ BatchNotFull(afterQ[k].valid_scenes)
                    => afterQ[k].last_requested = 1)

\* C21 amended: as above, but a backward scan whose start id is below 1
\* requests nothing: it hands over an empty batch and the next start id 1
\* without a request.
C21_BackwardReachesFloorFromAbove ==
    /\ (<>[]~loading_paused)
          => \A t \in Threads : (t \in BackwardScans) ~> (t \notin BackwardScans)
    /\ [](\A t \in BackwardScans :
              worker[t].last_requested = -1 \/ worker[t].last_requested >= 1)
    /\ [](\A k \in BackwardBatches :
              /\ afterQ[k].next_start >= 1
              /\ BatchNotFull(afterQ[k].valid_scenes)
                    => \/ afterQ[k].last_requested = 1
                       \/ /\ afterQ[k].last_requested = -1
                          /\ afterQ[k].valid_scenes = <<>>
                          /\ afterQ[k].next_start = 1)
    /\ [][\A t \in Threads :
             (/\ t \in BackwardScans
              /\ worker'[t].kind = "done"
              /\ worker[t].pc = "setup"
              /\ Len(afterQ') > Len(afterQ))
             => ParseInt(start_id_var).val < 1]_vars

\* C21 witness: a backward scan from a start id above 1 has ended and has
\* handed over, after its request for id 1, a batch of several scenes that
\* is not full.
C21_Witness ==
    /\ \A t \in Threads : worker[t].kind \in {"free", "done"}
    /\ \E k \in BackwardBatches :
          /\ afterQ[k].last_requested = 1
          /\ Len(afterQ[k].valid_scenes) >= 2
          /\ BatchNotFull(afterQ[k].valid_scenes)

\* The scene, as the scan fetched it, has no url and is not organized.
Untouched(scene) == scene.urls = <<>> /\ ~scene.organized

\* C22: every scene in the batch of a backward scan, while the scan runs
\* and when it hands the batch over, had no url and was not organized
\* when the scan fetched it.
C22_BackwardCollectsUntouched ==
    /\ \A t \in BackwardScans :
          \A k \in 1..Len(worker[t].valid_scenes) :
              Untouched(worker[t].valid_scenes[k])
    /\ \A q \in BackwardBatches :
          \A k \in 1..Len(afterQ[q].valid_scenes) :
              Untouched(afterQ[q].valid_scenes[k])

\* C22 witness: a backward scan has passed scene 3, which has a url or is
\* organized, and has handed over a batch with scene 2 and without
\* scene 3.
C22_Witness ==
    /\ ~Untouched(catalog[3]) /\ catalog[3].tag_ids = <<>>
    /\ \E q \in BackwardBatches :
          /\ afterQ[q].last_requested = 1
          /\ \E k \in 1..Len(afterQ[q].valid_scenes) :
                 afterQ[q].valid_scenes[k].id = 2
          /\ \A k \in 1..Len(afterQ[q].valid_scenes) :
                 afterQ[q].valid_scenes[k].id # 3

\* C23: each Normalizer is idempotent: a text normalized once and the
\* result normalized again give the same key.
C23_NormalizeIdempotent ==
    norm.stage = "twice" => norm.again = norm.output

\* C23 witness: clean_filename has made "a" of "a-01.mp4", and "a" of "a".
C23_Witness ==
    /\ norm.stage = "twice"
    /\ norm.policy = "clean_filename"
    /\ norm.input = "a-01.mp4"
    /\ norm.output = "a"
    /\ norm.again = "a"

\* The text holds lowercase letters and digits only.
LowerAlnumOnly(text) ==
    \A j \in 1..Len(text) :
        \/ IndexOf(Char(text, j), LowerChars) > 0
        \/ IndexOf(Char(text, j), DigitChars) > 0

C25_NoFullTableProbe ==
    (/\ lookup.stage = "queried"
     /\ CleanBase(app, lookup.base_filename) = ""
     /\ env.db.rows # <<>>)
    => lookup.results # env.db.rows

C27_MainThreadNeverWaits ==
    Paused => ~uiBlocked

\* C28: the url an update pass sends with update_scene for the scene of a
\* row is the url of the candidate the scan accepted that scene for.
C28_UpdateCarriesAcceptedUrl ==
    [][\A t \in Threads :
          (/\ worker[t].kind = "update"
           /\ worker'[t].kind = "update"
           /\ worker'[t].updated_scenes_count
                 = worker[t].updated_scenes_count + 1)
          => url_labels[worker[t].i + 1] = accepted_urls[worker[t].i + 1]]_vars

\* The finish callbacks of scans that hand over a batch with fewer than
\* TARGET_SCENE_COUNT scenes.
ShortBatches ==
    { k \in DOMAIN afterQ : /\ afterQ[k].op = "finish"
                            /\ BatchNotFull(afterQ[k].valid_scenes) }

\* C29: a scan hands over fewer than TARGET_SCENE_COUNT scenes only when
\* the ids are exhausted: a forward scan with its cursor beyond the maximum
\* id it knows, a backward scan with its cursor at the floor (every id down
\* to 1 requested, or none left to request); a scan whose batch is not
\* full and whose ids are not exhausted goes on.
C29_ShortBatchOnlyWhenExhausted ==
    \A k \in ShortBatches :
        LET cb == afterQ[k]
        IN  \/ /\ cb.dir = "forward"
               /\ cb.max_id.tag = "known"
               /\ cb.next_start > cb.max_id.val
            \/ /\ cb.dir = "backward"
               /\ cb.next_start = 1
               /\ cb.last_requested \in {1, -1}

\* A forward scan of US has handed over a batch that is neither empty nor
\* full.
C29_Witness ==
    /\ app = "US"
    /\ \E k \in ShortBatches : /\ afterQ[k].dir = "forward"
                                /\ afterQ[k].valid_scenes # <<>>

\* C30: the candidate a lookup returns stands in filtered behind rows of a
\* strictly lower score only and before rows of a score not higher than
\* its own: of the rows that share the highest score it is the first, and
\* a later row takes the place of the best so far only with a strictly
\* higher score.
C30_TiesKeepFirst ==
    (Returned /\ lookup.returned # <<>>) =>
        \E key \in {CleanBase(app, lookup.base_filename)} :
            LET Score(k) == ScoreOf(app, key, lookup.filtered[k].title)
                Higher(x, y) == x.num * y.den > y.num * x.den
            IN  \E j \in 1..Len(lookup.filtered) :
                    /\ lookup.filtered[j] = lookup.returned[1]
                    /\ \A k \in 1..(j-1) : Higher(Score(j), Score(k))
                    /\ \A k \in (j+1)..Len(lookup.filtered) :
                           ~Higher(Score(k), Score(j))

\* C30 witness: the lookup has returned the second of three filtered rows;
\* the third has the same score and another url.
C30_Witness ==
    /\ Returned
    /\ Len(lookup.filtered) = 3
    /\ lookup.returned = <<lookup.filtered[2]>>
    /\ lookup.filtered[3].url # lookup.filtered[2].url
    /\ \E key \in {CleanBase(app, lookup.base_filename)} :
          SameScore(ScoreOf(app, key, lookup.filtered[2].title),
                    ScoreOf(app, key, lookup.filtered[3].title))

LiveScans == {t \in Threads : worker[t].kind = "scan" /\ ~Crashed(t)}

\* C32: self.scenes does not change in a step during which a scan thread
\* runs; it changes only in the step that handles the finish callback of a
\* scan, and then to the valid_scenes of that scan; the valid_scenes of a
\* scan that starts is empty.
C32_BatchStableDuringScan ==
    [][/\ (\E t \in LiveScans : worker'[t].kind = "scan" /\ worker'[t].pc # "crashed")
           => scenes' = scenes
       /\ scenes' # scenes
           => /\ afterQ # <<>> /\ Head(afterQ).op = "finish"
              /\ scenes' = Head(afterQ).valid_scenes
       /\ \A t \in Threads :
             (worker[t].kind # "scan" /\ worker'[t].kind = "scan")
                => worker'[t].valid_scenes = <<>>]_vars

\* The ids of valid_scenes go strictly up in a forward scan and strictly
\* down in a backward scan.
OrderedByVisit(dir, valid_scenes) ==
    \A k \in 1..(Len(valid_scenes) - 1) :
        IF dir = "backward"
        THEN valid_scenes[k + 1].id < valid_scenes[k].id
        ELSE valid_scenes[k + 1].id > valid_scenes[k].id

\* C33: the valid_scenes of every scan thread, and of every finish callback
\* a scan posted, holds no scene twice and is ordered by visit: strictly
\* increasing ids in a forward scan, strictly decreasing in a backward one.
C33_CollectedOrdered ==
    /\ \A t \in ScanWorkers :
          OrderedByVisit(worker[t].dir, worker[t].valid_scenes)
    /\ \A k \in FinishCallbacks :
          OrderedByVisit(afterQ[k].dir, afterQ[k].valid_scenes)

\* C33 witness: a forward scan holds two scenes between which it passed
\* one it did not collect, while the callback of a backward scan that
\* collected two scenes or more waits.
C33_Witness ==
    /\ \E t \in ScanWorkers :
          /\ worker[t].dir = "forward"
          /\ Len(worker[t].valid_scenes) >= 2
          /\ worker[t].valid_scenes[2].id > worker[t].valid_scenes[1].id + 1
    /\ \E k \in FinishCallbacks :
          /\ afterQ[k].dir = "backward"
          /\ Len(afterQ[k].valid_scenes) >= 2

\* The scenes whose file name has an empty key for the program that runs.
HasEmptyKey(scene) ==
    scene.files # <<>> /\ CleanBase(app, BaseFilename(scene)) = ""

\* C34: no scan collects a scene whose file name has an empty key.
C34_EmptyKeyNeverAccepted ==
    /\ \A t \in ScanWorkers :
          \A k \in 1..Len(worker[t].valid_scenes) :
              ~HasEmptyKey(worker[t].valid_scenes[k])
    /\ \A c \in FinishCallbacks :
          \A k \in 1..Len(afterQ[c].valid_scenes) :
              ~HasEmptyKey(afterQ[c].valid_scenes[k])

\* The lookup for a file name returns a candidate on the strength of the
\* prefix test: in FH the cleaned title starts with clean_base and has the
\* ratio 1.0, in US (which has no other test) the title starts with it.
FastPathCandidate(a, base_filename, db) ==
    \E cands \in {get_firefox_urls(a, base_filename, db)} :
        /\ cands # <<>>
        /\ a = "FH" => StartsWith(Sanitized_FH(cands[1].title),
                                  CleanBase_FH(base_filename))

\* A pass of a forward scan over a scene that has a file and that the
\* organized test lets through.
ForwardPass(t) ==
    /\ worker[t].kind = "scan" /\ worker[t].pc = "find"
    /\ worker[t].dir = "forward"
    /\ worker'[t].pc # "crashed"
    /\ worker'[t].kind = "done" \/ worker'[t].last_requested = worker[t].sid
    /\ \E scene \in {FindScene(catalog, worker[t].sid)} :
          /\ scene.present /\ scene.files # <<>>
          /\ ~(app = "US" /\ skip_organized_var /\ scene.organized)

\* C35: a pass of a forward scan over a scene for whose file name the
\* lookup returns a candidate by the prefix test collects the scene, unless
\* the candidate's url is among the urls of the scene: the guard of the
\* scan turns away no candidate the lookup matched by prefix, a numeric
\* suffix of the file name notwithstanding.
C35_GuardAgreesWithMatcher ==
    [][\A t \in Threads :
          (/\ ForwardPass(t)
           /\ FastPathCandidate(app, BaseFilename(FindScene(catalog, worker[t].sid)),
                                env.db))
          => \E scene \in {FindScene(catalog, worker[t].sid)} :
                \/ Len(CollectedAfter(t)) = Len(worker[t].valid_scenes) + 1
                \/ UrlAlreadyExists(scene.urls,
                       get_firefox_urls(app, BaseFilename(scene), env.db)[1].url)]_vars

\* No two rows of the table have the same url.
UniqueUrls(table) ==
    \A i, j \in 1..Len(table) : i # j => table[i].url # table[j].url

\* C36: when no two rows of browser_hist share a url before clean_urls
\* runs, no two rows share a url after it.
C36_CleanKeepsUrlsUnique ==
    [][(hist'.last_op = "clean" /\ UniqueUrls(hist.browser_hist))
          => UniqueUrls(hist'.browser_hist)]_vars

\* The (url, title) rows of the table.
StoredContent(table) ==
    { <<table[k].url, table[k].title>> : k \in 1..Len(table) }

\* A save_history that reads the rows the save before it read.
SavesAgain ==
    /\ hist'.saves = hist.saves + 1
    /\ hist.saved.some
    /\ hist'.saved.rows = hist.saved.rows

=============================================================================
